---- MODULE Spec2Model ----
(***************************************************************************)
(* Model of the HTTP/1.1 request parser of HttpServerRust:                 *)
(*   src/src/http/request_line.rs   parse_request_line                     *)
(*   src/src/http/headers.rs        Headers (insert, append, parse_header) *)
(*   src/src/http/request.rs        Request::parse, request_from_reader    *)
(*                                                                         *)
(* Octets are one-character strings ("G", " ", "\r", "\n"); three octets   *)
(* above 0x7F are written "xC3", "xA9" (together the UTF-8 encoding of one *)
(* two-octet character) and "xFF" (never valid in UTF-8).  Octet strings   *)
(* are sequences of octets.                                                *)
(***************************************************************************)
EXTENDS Integers, Sequences, FiniteSets, TLC

(***************************************************************************)
(* Octet strings                                                           *)
(***************************************************************************)

\* A TLA+ string literal as a sequence of one-character octets.
Bytes(s) == [i \in 1..Len(s) |-> SubSeq(s, i, i)]

CR == "\r"
LF == "\n"
SP == " "
HTAB == "\t"
CRLF == <<CR, LF>>
CRLFCRLF == <<CR, LF, CR, LF>>

Min(a, b) == IF a < b THEN a ELSE b

\* str::find: index of the first occurrence of pat in s, 0 when there is none.
RECURSIVE FindFrom(_, _, _)
FindFrom(s, pat, i) ==
    IF i + Len(pat) - 1 > Len(s) THEN 0
    ELSE IF SubSeq(s, i, i + Len(pat) - 1) = pat THEN i
    ELSE FindFrom(s, pat, i + 1)

Find(s, pat) == FindFrom(s, pat, 1)

\* str::rfind: index of the last occurrence of pat in s, 0 when there is none.
RECURSIVE RFindFrom(_, _, _)
RFindFrom(s, pat, i) ==
    IF i < 1 THEN 0
    ELSE IF SubSeq(s, i, i + Len(pat) - 1) = pat THEN i
    ELSE RFindFrom(s, pat, i - 1)

RFind(s, pat) == RFindFrom(s, pat, Len(s) - Len(pat) + 1)

Contains(s, pat) == Find(s, pat) # 0

\* s[from..]
Drop(s, n) == SubSeq(s, n + 1, Len(s))
\* s[..n]
Take(s, n) == SubSeq(s, 1, n)

StartsWith(s, pat) == Len(s) >= Len(pat) /\ Take(s, Len(pat)) = pat

\* str::split(pat): the pieces of s between the occurrences of pat, in order;
\* a string without pat is one piece, also when it is empty.
RECURSIVE Split(_, _)
SplitAt(s, pat, i) ==
    IF i = 0 THEN <<s>>
    ELSE <<Take(s, i - 1)>> \o Split(Drop(s, i + Len(pat) - 1), pat)

Split(s, pat) == SplitAt(s, pat, Find(s, pat))

\* char::is_whitespace over the octets of the model (str::trim strips these).
WhiteSpace == {SP, HTAB, CR, LF}

RECURSIVE TrimStart(_)
TrimStart(s) ==
    IF s # <<>> /\ s[1] \in WhiteSpace THEN TrimStart(Tail(s)) ELSE s

RECURSIVE TrimEnd(_)
TrimEnd(s) ==
    IF s # <<>> /\ s[Len(s)] \in WhiteSpace THEN TrimEnd(Take(s, Len(s) - 1)) ELSE s

\* str::trim
Trim(s) == TrimEnd(TrimStart(s))

UpperLetters == Bytes("ABCDEFGHIJKLMNOPQRSTUVWXYZ")
LowerLetters == Bytes("abcdefghijklmnopqrstuvwxyz")
Upper == {UpperLetters[i] : i \in 1..26}
Lower == {LowerLetters[i] : i \in 1..26}
Digits == Bytes("0123456789")
Digit == {Digits[i] : i \in 1..10}

\* char::to_lowercase on one octet
LowerOctet(c) ==
    IF c \in Upper
    THEN LowerLetters[CHOOSE i \in 1..26 : UpperLetters[i] = c]
    ELSE c

\* str::to_lowercase
ToLowercase(s) == [i \in 1..Len(s) |-> LowerOctet(s[i])]

\* The UTF-8 encoding of U+FFFD REPLACEMENT CHARACTER.
Replacement == <<"xEF", "xBF", "xBD">>

\* The octets above 0x7F.
NonAscii == {"xC3", "xA9", "xFF", "xEF", "xBF", "xBD"}

\* String::from_utf8_lossy: valid sequences are kept, every octet that is not
\* part of one becomes U+FFFD (three octets).  Valid here: the ASCII octets,
\* the pair xC3 xA9 and an encoded U+FFFD.
RECURSIVE from_utf8_lossy(_)
from_utf8_lossy(data) ==
    IF \A i \in 1..Len(data) : data[i] \notin NonAscii THEN data
    ELSE IF StartsWith(data, <<"xC3", "xA9">>)
         THEN <<"xC3", "xA9">> \o from_utf8_lossy(Drop(data, 2))
    ELSE IF StartsWith(data, Replacement)
         THEN Replacement \o from_utf8_lossy(Drop(data, 3))
    ELSE IF data[1] \in NonAscii
         THEN Replacement \o from_utf8_lossy(Tail(data))
    ELSE <<data[1]>> \o from_utf8_lossy(Tail(data))

(***************************************************************************)
(* Error kinds (HttpError) and the result of a call that did not fail.     *)
(***************************************************************************)
NoError == "NoError"
UnsupportedVersion == "UnsupportedVersion"
InvalidMethod == "InvalidMethod"
MalformedRequestLine == "MalformedRequestLine"
MalformedHeader == "MalformedHeader"
InvalidHeaders == "InvalidHeaders"
UnexpectedEOF == "UnexpectedEOF"
InvalidBodyLength == "InvalidBodyLength"
ParseError == "ParseError"
ContentTooLarge == "ContentTooLarge"

(***************************************************************************)
(* Request line (request_line.rs)                                          *)
(***************************************************************************)
VALID_METHODS ==
    { Bytes("GET"), Bytes("POST"), Bytes("PATCH"), Bytes("PUT"), Bytes("DELETE"),
      Bytes("HEAD"), Bytes("OPTIONS"), Bytes("CONNECT"), Bytes("TRACE") }

CRLF_LEN == 2

HttpPrefix == Bytes("HTTP/")

\* RequestLine { method, request_target, http_version }
RequestLine(m, t, v) == [method |-> m, request_target |-> t, http_version |-> v]

\* The request line request_from_reader starts with: three empty strings.
EmptyRequestLine == RequestLine(<<>>, <<>>, <<>>)

\* Result<(Option<RequestLine>, usize), HttpError>: err is NoError for Ok,
\* some tells Some from None.
LineResult(e, some, rl, n) == [err |-> e, some |-> some, line |-> rl, size |-> n]

\* request_line_from_parts without the test of the method.
request_line_any_method(parts, line_length) ==
    IF Len(parts) # 3
    THEN LineResult(MalformedRequestLine, FALSE, EmptyRequestLine, 0)
    ELSE IF ~StartsWith(parts[3], HttpPrefix)
    THEN LineResult(MalformedRequestLine, FALSE, EmptyRequestLine, 0)
    ELSE LineResult(NoError, TRUE,
                    RequestLine(parts[1], parts[2], Drop(parts[3], Len(HttpPrefix))),
                    line_length)

\* parse_request_line once the line is split: parts are the pieces of the
\* first line between spaces, line_length is first.len() + CRLF_LEN.
request_line_from_parts(parts, line_length) ==
    IF Len(parts) # 3
    THEN LineResult(MalformedRequestLine, FALSE, EmptyRequestLine, 0)
    ELSE IF ~StartsWith(parts[3], HttpPrefix)
    THEN LineResult(MalformedRequestLine, FALSE, EmptyRequestLine, 0)
    ELSE IF parts[1] \notin VALID_METHODS
    THEN LineResult(InvalidMethod, FALSE, EmptyRequestLine, 0)
    ELSE LineResult(NoError, TRUE,
                    RequestLine(parts[1], parts[2], Drop(parts[3], Len(HttpPrefix))),
                    line_length)

\* parse_request_line on a request whose first line break is at index crlf
\* (0: there is none); first is request.split("\r\n").next().
request_line_at(request, crlf) ==
    IF crlf = 0
    THEN LineResult(NoError, FALSE, EmptyRequestLine, 0)
    ELSE request_line_from_parts(Split(Take(request, crlf - 1), <<SP>>),
                                 (crlf - 1) + CRLF_LEN)

parse_request_line(request) == request_line_at(request, Find(request, CRLF))

(***************************************************************************)
(* Header map (headers.rs): a function from names to values.               *)
(***************************************************************************)
NewHeaders == [k \in {} |-> <<>>]

insert(h, key, value) ==
    [k \in (DOMAIN h) \cup {key} |-> IF k = key THEN value ELSE h[k]]

Separator == <<",", SP>>

\* append that joins with the separator whatever the value held.
append_always_separates(h, key, value) ==
    IF key \in DOMAIN h
    THEN [h EXCEPT ![key] = h[key] \o Separator \o value]
    ELSE insert(h, key, value)

append(h, key, value) ==
    IF key \in DOMAIN h
    THEN [h EXCEPT ![key] = IF h[key] # <<>> THEN h[key] \o Separator \o value
                            ELSE value]
    ELSE insert(h, key, value)

\* The grave accent (0x60) is written "x60".
TokenPunct == {"!", "#", "$", "%", "&", "'", "*", "+", "-", ".", "^", "_", "x60", "|", "~"}

is_valid_char(c) == c \in Upper \cup Lower \cup Digit \cup TokenPunct

HostName == Bytes("host")

\* Result<(), HttpError> together with the map as the call leaves it.
FieldResult(e, h) == [err |-> e, headers |-> h]

\* create_header_from_string after split_once(':') and the trim of the value.
header_from_parts(h, key, value, key_lowercase) ==
    IF \E i \in 1..Len(key) : key[i] = SP
    THEN FieldResult(MalformedHeader, h)
    ELSE IF ~(\A i \in 1..Len(key) : is_valid_char(key[i]))
    THEN FieldResult(MalformedHeader, h)
    ELSE IF key = HostName /\ value = <<>>
    THEN FieldResult(InvalidHeaders, h)
    ELSE IF key_lowercase \in DOMAIN h
    THEN FieldResult(NoError, append(h, key_lowercase, value))
    ELSE FieldResult(NoError, insert(h, key_lowercase, value))

\* create_header_from_string on the trimmed line, colon the index of its first
\* ':' (0: there is none).
header_from_trimmed(h, trim, colon) ==
    IF colon = 0 THEN FieldResult(MalformedHeader, h)
    ELSE header_from_parts(h, Take(trim, colon - 1), Trim(Drop(trim, colon)),
                           ToLowercase(Take(trim, colon - 1)))

header_from_trim(h, trim) == header_from_trimmed(h, trim, Find(trim, <<":">>))

create_header_from_string(h, string) == header_from_trim(h, Trim(string))

\* Result<(usize, bool), HttpError> together with the map as the call leaves it
\* (the lines before a rejected line stay in the map).
BlockResult(e, h, n, d) == [err |-> e, headers |-> h, consumed |-> n, done |-> d]

\* The two for-loops of parse_header: the lines from index i on, line_length
\* counted so far, at_end the flag returned when the lines run out.
RECURSIVE header_lines(_, _, _, _, _)
header_line_done(r, lines, i, line_length, at_end) ==
    IF r.err # NoError
    THEN BlockResult(r.err, r.headers, 0, FALSE)
    ELSE header_lines(r.headers, lines, i + 1, line_length + Len(lines[i]) + CRLF_LEN,
                      at_end)

header_lines(h, lines, i, line_length, at_end) ==
    IF i > Len(lines) THEN BlockResult(NoError, h, line_length, at_end)
    ELSE IF lines[i] = <<>>
    THEN BlockResult(NoError, h, line_length + CRLF_LEN, TRUE)
    ELSE header_line_done(create_header_from_string(h, lines[i]), lines, i,
                          line_length, at_end)

\* parse_header on the decoded string.
parse_header_string(h, string) ==
    IF Contains(string, CRLFCRLF)
    THEN header_lines(h, Split(string, CRLF), 1, 0, TRUE)
    ELSE IF Contains(string, CRLF)
    THEN \* rsplit_once: base is what precedes the last line break
         header_lines(h, Split(Take(string, RFind(string, CRLF) - 1), CRLF), 1, 0, FALSE)
    ELSE BlockResult(NoError, h, 0, FALSE)

parse_header(h, data) == parse_header_string(h, from_utf8_lossy(data))

(***************************************************************************)
(* Request and Request::parse (request.rs)                                 *)
(***************************************************************************)
Initialized == "Initialized"
ParseHeaders == "ParseHeaders"
ParseBody == "ParseBody"
Done == "Done"

ContentLengthName == Bytes("content-length")
SupportedVersion == Bytes("1.1")

\* The value of a string of decimal digits.
RECURSIVE DecimalValue(_)
DecimalValue(s) ==
    IF s = <<>> THEN 0
    ELSE 10 * DecimalValue(Take(s, Len(s) - 1))
         + ((CHOOSE i \in 1..10 : Digits[i] = s[Len(s)]) - 1)

\* str::parse::<usize>: an optional "+", then one or more decimal digits.
\* (The values of the model stay far below usize::MAX.)
ParseDigits(digits) ==
    IF digits = <<>> \/ \E i \in 1..Len(digits) : digits[i] \notin Digit
    THEN [ok |-> FALSE, value |-> 0]
    ELSE [ok |-> TRUE, value |-> DecimalValue(digits)]

ParseUsize(s) == ParseDigits(IF s # <<>> /\ s[1] = "+" THEN Tail(s) ELSE s)

\* Result<usize, HttpError> together with the Request as the call leaves it.
ParseResult(e, n, st, rl, h, b) ==
    [err |-> e, consumed |-> n, parse_state |-> st, request_line |-> rl,
     headers |-> h, body |-> b]

\* parse_body_length that is Done after the first slice, whatever its length.
parse_body_length_hasty(req, data, content) ==
    IF ~content.ok
    THEN ParseResult(ParseError, 0, ParseBody, req.request_line, req.headers, req.body)
    ELSE IF Len(req.body) + Len(data) > content.value
    THEN ParseResult(InvalidBodyLength, 0, ParseBody, req.request_line, req.headers,
                     req.body)
    ELSE ParseResult(NoError, Len(data), Done, req.request_line, req.headers,
                     req.body \o data)

\* The ParseBody arm of Request::parse with a content-length header,
\* content the outcome of content.parse().
parse_body_length(req, data, content) ==
    LET content_length == content.value
        already_received == Len(req.body)
        remaining == IF content_length > Len(req.body)
                     THEN content_length - Len(req.body) ELSE 0
        to_take == Min(remaining, Len(data))
    IN  IF ~content.ok
        THEN ParseResult(ParseError, 0, ParseBody, req.request_line, req.headers, req.body)
        ELSE IF already_received > content_length
        THEN ParseResult(InvalidBodyLength, 0, ParseBody, req.request_line, req.headers,
                         req.body)
        ELSE IF to_take < Len(data)
        THEN ParseResult(InvalidBodyLength, 0, ParseBody, req.request_line, req.headers,
                         req.body)
        ELSE IF Len(req.body) + to_take < content_length
        THEN ParseResult(NoError, to_take, ParseBody, req.request_line, req.headers,
                         req.body \o Take(data, to_take))
        ELSE ParseResult(NoError, to_take, Done, req.request_line, req.headers,
                         req.body \o Take(data, to_take))

\* parse_body that takes what follows the blank line for the body when no
\* length is declared.
parse_body_keeps_rest(req, data) ==
    IF ContentLengthName \notin DOMAIN req.headers
    THEN ParseResult(NoError, Len(data), Done, req.request_line, req.headers,
                     req.body \o data)
    ELSE parse_body_length(req, data, ParseUsize(req.headers[ContentLengthName]))

\* parse_body that rejects octets after the blank line when no length is declared.
parse_body_strict(req, data) ==
    IF ContentLengthName \notin DOMAIN req.headers
    THEN IF data # <<>>
         THEN ParseResult(InvalidBodyLength, 0, ParseBody, req.request_line,
                          req.headers, req.body)
         ELSE ParseResult(NoError, 0, Done, req.request_line, req.headers, req.body)
    ELSE parse_body_length(req, data, ParseUsize(req.headers[ContentLengthName]))

\* The ParseBody arm of Request::parse.
parse_body(req, data) ==
    IF ContentLengthName \notin DOMAIN req.headers
    THEN ParseResult(NoError, 0, Done, req.request_line, req.headers, req.body)
    ELSE parse_body_length(req, data, ParseUsize(req.headers[ContentLengthName]))

\* The Initialized arm of Request::parse, r the outcome of parse_request_line.
initialized_with(req, r) ==
    IF r.err # NoError
    THEN ParseResult(r.err, 0, Initialized, req.request_line, req.headers, req.body)
    ELSE IF r.some /\ r.line.http_version # SupportedVersion
    THEN ParseResult(UnsupportedVersion, 0, Initialized, req.request_line,
                     req.headers, req.body)
    ELSE IF r.some
    THEN ParseResult(NoError, r.size, ParseHeaders, r.line, req.headers, req.body)
    ELSE ParseResult(NoError, r.size, Initialized, req.request_line, req.headers,
                     req.body)

parse_initialized(req, string) == initialized_with(req, parse_request_line(string))

\* headers_with that is Done at the blank line, without a call for the body.
headers_with_skipping_body(req, r) ==
    IF r.err # NoError
    THEN ParseResult(r.err, 0, ParseHeaders, req.request_line, r.headers, req.body)
    ELSE ParseResult(NoError, r.consumed, IF r.done THEN Done ELSE ParseHeaders,
                     req.request_line, r.headers, req.body)

\* The ParseHeaders arm of Request::parse, r the outcome of parse_header.
headers_with(req, r) ==
    IF r.err # NoError
    THEN ParseResult(r.err, 0, ParseHeaders, req.request_line, r.headers, req.body)
    ELSE ParseResult(NoError, r.consumed, IF r.done THEN ParseBody ELSE ParseHeaders,
                     req.request_line, r.headers, req.body)

parse_headers(req, string) == headers_with(req, parse_header(req.headers, string))

\* parse_done that accepts remaining octets.
parse_done_lenient(req, data) ==
    ParseResult(NoError, 0, Done, req.request_line, req.headers, req.body)

\* The Done arm of Request::parse.
parse_done(req, data) ==
    IF data # <<>>
    THEN ParseResult(InvalidBodyLength, 0, Done, req.request_line, req.headers, req.body)
    ELSE ParseResult(NoError, 0, Done, req.request_line, req.headers, req.body)

\* Request::parse on the request req = [parse_state, request_line, headers, body],
\* string the lossy decoding of data.
parse_decoded(req, data, string) ==
    CASE req.parse_state = Initialized  -> parse_initialized(req, string)
      [] req.parse_state = ParseHeaders -> parse_headers(req, string)
      [] req.parse_state = ParseBody    -> parse_body(req, data)
      [] req.parse_state = Done         -> parse_done(req, data)

parse(req, data) == parse_decoded(req, data, from_utf8_lossy(data))

(***************************************************************************)
(* The peer: what it would send on the connection if it never closed it.   *)
(***************************************************************************)
MaxFields == 2
MaxBody == 3

\* The request line sent with every list of field lines and every body.
GoodRequestLines == { Bytes("GET / HTTP/1.1") }

\* Request lines sent with one field line and no body.
OtherRequestLines ==
    { Bytes("POST /a HTTP/1.1"),
      Bytes("GET  / HTTP/1.1"), Bytes("GET  HTTP/1.1"), Bytes(" / HTTP/1.1"),
      Bytes("/ HTTP/1.1"), Bytes("GET\t/\tHTTP/1.1"), Bytes("GET / HTTP/1.1 "),
      Bytes("GET /"), Bytes("GET / http/1.1"), Bytes("HTTP/1.1 / GET"),
      Bytes("get / HTTP/1.1"), Bytes("STOPS / HTTP/1.1"), Bytes("STOPS / HTTP/1.2"),
      Bytes("GET / HTTP/1.2"), Bytes("GET / HTTP/"), Bytes("GET / HTTP/1.10") }

\* Field lines sent in every order and number up to MaxFields, ...
FieldLines == { Bytes("a: b"), Bytes("A:") }

\* ... followed by no further line or by a declaration of the body length.
LengthLines == { <<>>, <<Bytes("Content-Length: 2")>> }

\* Field lines sent alone, with no body or a body of one octet.
OtherFieldLines ==
    { Bytes("Host: x"), Bytes("@:e"), Bytes("nocolon"), Bytes(":v"), Bytes(" b : c"),
      Bytes("  a\t:  b c \t"), Bytes("Host:"), Bytes("host:"),
      Bytes("content-length: 0"), Bytes("Content-Length: +1"),
      Bytes("Content-Length: x"), Bytes("a: b\r"),
      Bytes("n: ") \o <<"xC3", "xA9">>, Bytes("n: ") \o <<"xFF">> }

\* Lists of field lines sent with no body.
OtherFieldLists ==
    { <<Bytes("n: ") \o <<"xFF">>, Bytes("xxb: c")>>,
      <<Bytes("Content-Length: 2"), Bytes("Content-Length: 2")>> }

BodyText == Bytes("hello world!")

Bodies == { Take(BodyText, n) : n \in 0..Min(MaxBody, Len(BodyText)) }

FieldLists ==
    { f \o l : f \in UNION { [1..n -> FieldLines] : n \in 0..MaxFields },
               l \in LengthLines }

Peer(l, f, b) == [line |-> l, fields |-> f, body |-> b]

Peers ==
    { Peer(l, f, b) : l \in GoodRequestLines, f \in FieldLists, b \in Bodies }
    \cup { Peer(l, <<Bytes("Host: x")>>, <<>>) : l \in OtherRequestLines }
    \cup { Peer(Bytes("GET / HTTP/1.1"), <<f>>, b) : f \in OtherFieldLines,
                                                     b \in { <<>>, Take(BodyText, 1) } }
    \cup { Peer(Bytes("GET / HTTP/1.1"), f, <<>>) : f \in OtherFieldLists }

RECURSIVE Concat(_)
Concat(ss) == IF ss = <<>> THEN <<>> ELSE Head(ss) \o Concat(Tail(ss))

\* The octets of a request: request line, field lines, blank line, body.
Wire(p) ==
    p.line \o CRLF \o Concat([i \in 1..Len(p.fields) |-> p.fields[i] \o CRLF])
           \o CRLF \o p.body

(***************************************************************************)
(* request_from_reader (request.rs)                                        *)
(***************************************************************************)
VARIABLES
    peer,               \* the request the peer is sending
    stream,             \* octets the peer has not delivered yet
    eof,                \* the reader has returned a zero-length read
    buffer,             \* buffer: octets read and not yet consumed
    bytes_read,
    total_bytes_read,
    header_bytes_read,
    parse_state,        \* request.parse_state
    request_line,       \* request.request_line
    headers,            \* request.headers
    body,               \* request.body
    result,             \* Running, Ok (the Request is returned), an error kind, Panic
    restart,            \* a header block fed to parse_header in two calls
    api,                \* a Headers map under insert, append and parse_header calls
    sizes,              \* request_from_reader over octet counts
    conn,               \* a connection task: handle and process_request
    server,             \* the listener and the tasks it spawned: listen and close
    emit                \* a sink and the calls of the response emitter on it

vars == <<peer, stream, eof, buffer, bytes_read, total_bytes_read, header_bytes_read,
          parse_state, request_line, headers, body, result, restart, api, sizes, conn,
          server, emit>>

driver_vars == <<peer, stream, eof, buffer, bytes_read, total_bytes_read,
                 header_bytes_read, parse_state, request_line, headers, body, result>>

Running == "Running"
Ok == "Ok"
Panic == "Panic"

TEMP_LEN == 64
MAX_REQUEST_SIZE == 8388608
MAX_HEADER_SIZE == 32768

\* No header block is being fed to parse_header on its own.
Restart(stage, block, cut, r) ==
    [stage |-> stage, block |-> block, cut |-> cut, err |-> r.err,
     headers |-> r.headers, consumed |-> r.consumed, done |-> r.done]

NotCalled == BlockResult(NoError, NewHeaders, 0, FALSE)

\* The two caps tested after a read: the outcome of the loop iteration.
size_checks_no_total(total, header) ==
    IF header > MAX_HEADER_SIZE THEN ContentTooLarge ELSE Running

size_checks(total, header) ==
    IF total > MAX_REQUEST_SIZE THEN ContentTooLarge
    ELSE IF header > MAX_HEADER_SIZE THEN ContentTooLarge
    ELSE Running

\* The value of a variable that belongs to another specification.
Unused == [stage |-> "Idle"]

Init ==
    /\ restart = Restart("Idle", <<>>, 0, NotCalled)
    /\ api = Unused
    /\ sizes = Unused
    /\ conn = Unused
    /\ server = Unused
    /\ emit = Unused
    /\ peer \in Peers
    /\ stream = Wire(peer)
    /\ eof = FALSE
    /\ buffer = <<>>
    /\ bytes_read = 0
    /\ total_bytes_read = 0
    /\ header_bytes_read = 0
    /\ parse_state = Initialized
    /\ request_line = EmptyRequestLine
    /\ headers = NewHeaders
    /\ body = <<>>
    /\ result = Running

Request == [parse_state |-> parse_state, request_line |-> request_line,
            headers |-> headers, body |-> body]

\* request.parse(&buffer[..bytes_read])
Parsed == parse(Request, Take(buffer, bytes_read))

\* The Request as the parse call leaves it.
Store(r) ==
    /\ parse_state' = r.parse_state
    /\ request_line' = r.request_line
    /\ headers' = r.headers
    /\ body' = r.body

\* ParseState::Done => return Ok(true)
ReturnDone ==
    /\ result = Running
    /\ parse_state = Done
    /\ result' = Ok
    /\ UNCHANGED <<api, sizes, conn, server, emit, restart, peer, stream, eof, buffer, bytes_read, total_bytes_read,
                   header_bytes_read, parse_state, request_line, headers, body>>

\* let parsed = request.parse(..)?  fails
ParseFailsWith(r) ==
    /\ r.err # NoError
    /\ Store(r)
    /\ result' = r.err
    /\ UNCHANGED <<api, sizes, conn, server, emit, restart, peer, stream, eof, buffer, bytes_read, total_bytes_read,
                   header_bytes_read>>

ParseFails ==
    /\ result = Running
    /\ parse_state # Done
    /\ ParseFailsWith(Parsed)

\* parsed > 0: buffer.drain(0..parsed); bytes_read -= parsed
ConsumeWith(r) ==
    /\ r.err = NoError
    /\ r.consumed > 0
    /\ r.consumed <= Len(buffer)
    /\ Store(r)
    /\ buffer' = Drop(buffer, r.consumed)
    /\ bytes_read' = bytes_read - r.consumed
    /\ UNCHANGED <<api, sizes, conn, server, emit, restart, peer, stream, eof, total_bytes_read, header_bytes_read, result>>

Consume ==
    /\ result = Running
    /\ parse_state # Done
    /\ ConsumeWith(Parsed)

\* parsed > 0 and past the end of the buffer: Vec::drain panics
DrainPanicsWith(r) ==
    /\ r.err = NoError
    /\ r.consumed > Len(buffer)
    /\ Store(r)
    /\ result' = Panic
    /\ UNCHANGED <<api, sizes, conn, server, emit, restart, peer, stream, eof, buffer, bytes_read, total_bytes_read,
                   header_bytes_read>>

DrainPanics ==
    /\ result = Running
    /\ parse_state # Done
    /\ DrainPanicsWith(Parsed)

\* parsed = 0 and the state became Done: return Ok(true)
ReturnParsedWith(r) ==
    /\ r.err = NoError
    /\ r.consumed = 0
    /\ r.parse_state = Done
    /\ Store(r)
    /\ result' = Ok
    /\ UNCHANGED <<api, sizes, conn, server, emit, restart, peer, stream, eof, buffer, bytes_read, total_bytes_read,
                   header_bytes_read>>

ReturnParsed ==
    /\ result = Running
    /\ parse_state # Done
    /\ ReturnParsedWith(Parsed)

\* parsed = 0, not Done: reader.read(&mut temp) returns read > 0 octets
ReadWith(r) ==
    /\ r.err = NoError
    /\ r.consumed = 0
    /\ r.parse_state # Done
    /\ Store(r)
    /\ \E read \in 1..Min(TEMP_LEN, Len(stream)) :
         /\ buffer' = buffer \o Take(stream, read)
         /\ stream' = Drop(stream, read)
         /\ bytes_read' = bytes_read + read
         /\ total_bytes_read' = total_bytes_read + read
         /\ header_bytes_read' = IF r.parse_state = ParseHeaders
                                 THEN header_bytes_read + read ELSE header_bytes_read
         /\ result' = size_checks(total_bytes_read', header_bytes_read')
    /\ UNCHANGED <<api, sizes, conn, server, emit, restart, peer, eof>>

Read ==
    /\ result = Running
    /\ parse_state # Done
    /\ ReadWith(Parsed)

\* parsed = 0, not Done: reader.read(&mut temp) returns 0, the peer has closed
\* (after all of the request or after a part of it)
ReadEofWith(r) ==
    /\ r.err = NoError
    /\ r.consumed = 0
    /\ r.parse_state # Done
    /\ Store(r)
    /\ eof' = TRUE
    /\ result' = UnexpectedEOF
    /\ UNCHANGED <<api, sizes, conn, server, emit, restart, peer, stream, buffer, bytes_read, total_bytes_read, header_bytes_read>>

ReadEof ==
    /\ result = Running
    /\ parse_state # Done
    /\ ReadEofWith(Parsed)

Next ==
    \/ ReturnDone
    \/ ParseFails
    \/ Consume
    \/ DrainPanics
    \/ ReturnParsed
    \/ Read
    \/ ReadEof

Spec == Init /\ [][Next]_vars

(***************************************************************************)
(* Headers::parse_header called twice (headers.rs): on a prefix of a header *)
(* block, then on what the first call left of the prefix followed by the   *)
(* rest of the block, as Request::parse and request_from_reader call it    *)
(* when the block arrives in two reads.                                    *)
(***************************************************************************)
HeaderBlocks ==
    { Bytes("a: b\r\nA:\r\n\r\n"),
      Bytes("Host: x\r\n\r\n"),
      Bytes("a: b\r\nbad\r\nc: d\r\n\r\n"),
      Bytes("a: b\r\nHost:\r\n\r\n"),
      Bytes("\r\n"),
      Bytes("a: b\r\nc"),
      Bytes("a: b\r\nc: d\r"),
      Bytes("n: ") \o <<"xC3", "xA9">> \o Bytes("\r\n\r\n"),
      Bytes("n: ") \o <<"xFF">> \o Bytes("\r\n\r\n"),
      Bytes("n: ") \o <<"xFF">> \o Bytes("\r\nxxb: c\r\n\r\n") }

InitHeaders ==
    /\ \E block \in HeaderBlocks : \E cut \in 0..Len(block) :
           restart = Restart("Split", block, cut, NotCalled)
    /\ api = Unused
    /\ sizes = Unused
    /\ conn = Unused
    /\ server = Unused
    /\ emit = Unused
    /\ peer = Peer(Bytes("GET / HTTP/1.1"), <<>>, <<>>)
    /\ stream = <<>>
    /\ eof = FALSE
    /\ buffer = <<>>
    /\ bytes_read = 0
    /\ total_bytes_read = 0
    /\ header_bytes_read = 0
    /\ parse_state = ParseHeaders
    /\ request_line = EmptyRequestLine
    /\ headers = NewHeaders
    /\ body = <<>>
    /\ result = Running

Unchanged == UNCHANGED <<peer, stream, eof, buffer, bytes_read, total_bytes_read,
                         header_bytes_read, parse_state, request_line, headers, body,
                         result, api, sizes, conn, server, emit>>

\* headers.parse_header(prefix)
FirstCall ==
    /\ restart.stage = "Split"
    /\ restart' = Restart("First", restart.block, restart.cut,
                          parse_header(NewHeaders, Take(restart.block, restart.cut)))
    /\ Unchanged

\* headers.parse_header(remainder of the prefix + suffix), the counts added up
SecondCallWith(r) ==
    /\ restart' = Restart("Second", restart.block, restart.cut,
                          BlockResult(r.err, r.headers,
                                      IF r.err = NoError
                                      THEN restart.consumed + r.consumed ELSE 0,
                                      r.done))
    /\ Unchanged

SecondCall ==
    /\ restart.stage = "First"
    /\ restart.err = NoError
    /\ ~restart.done
    /\ restart.consumed <= restart.cut
    /\ SecondCallWith(parse_header(restart.headers,
                                   Drop(restart.block, restart.consumed)))

\* The first call reports more octets than the prefix has: there is no
\* remainder to call it on again (buffer.drain(0..parsed) panics).
NoRemainder ==
    /\ restart.stage = "First"
    /\ restart.err = NoError
    /\ restart.consumed > restart.cut
    /\ restart' = [restart EXCEPT !.stage = "Panic"]
    /\ Unchanged

NextHeaders ==
    \/ FirstCall
    \/ SecondCall
    \/ NoRemainder

SpecHeaders == InitHeaders /\ [][NextHeaders]_vars

(***************************************************************************)
(* A Headers map under the calls of its public interface (headers.rs):     *)
(* insert, append and parse_header in any order, get and iter to read it.  *)
(***************************************************************************)
MaxValueLen == 4

\* Headers::get: Option<&str> as a sequence of no or one value
get(h, key) == IF key \in DOMAIN h THEN <<h[key]>> ELSE <<>>

\* Headers::iter: the (name, value) pairs, in no particular order
iter(h) == { <<key, h[key]>> : key \in DOMAIN h }

\* Headers::duplicate_headers
CRITICAL_HEADERS ==
    { Bytes("host"), Bytes("content-length"), Bytes("transfer-encoding"),
      Bytes("connection") }

duplicate_headers(h) ==
    \E header \in CRITICAL_HEADERS :
        get(h, header) # <<>> /\ Contains(get(h, header)[1], Separator)

\* Names and values the application passes to insert and append.
ApiKeys == { Bytes("k"), Bytes("K") }
ApiValues == { <<>>, Bytes("v"), Bytes("w") }

\* Header blocks passed to parse_header.
ApiBlocks ==
    { Bytes("k: v\r\n\r\n"), Bytes("K: w\r\nk:\r\n"), Bytes("k:\r\nk: w\r\n\r\n"),
      Bytes("k: v\r\nk: w\r\n\r\n"), Bytes("k: w\r\nbad\r\n\r\n"),
      Bytes("Host: a\r\nhost: b\r\n\r\n"), Bytes("connection: a, b\r\n\r\n"),
      Bytes("Connection:\r\nconnection: a\r\n\r\n") }

\* The map, the last call made on it and the map before that call.
Api(h, op, key, value, err, before) ==
    [headers |-> h, op |-> op, key |-> key, value |-> value, err |-> err,
     before |-> before]

DriverAtRest ==
    /\ peer = Peer(Bytes("GET / HTTP/1.1"), <<>>, <<>>)
    /\ stream = <<>>
    /\ eof = FALSE
    /\ buffer = <<>>
    /\ bytes_read = 0
    /\ total_bytes_read = 0
    /\ header_bytes_read = 0
    /\ parse_state = Initialized
    /\ request_line = EmptyRequestLine
    /\ headers = NewHeaders
    /\ body = <<>>
    /\ result = Running
    /\ restart = Restart("Idle", <<>>, 0, NotCalled)

\* Headers::new()
InitMap ==
    /\ api = Api(NewHeaders, "new", <<>>, <<>>, NoError, NewHeaders)
    /\ sizes = Unused
    /\ conn = Unused
    /\ server = Unused
    /\ emit = Unused
    /\ DriverAtRest

ValuesWithin(h) == \A key \in DOMAIN h : Len(h[key]) <= MaxValueLen

MapCall(h, op, key, value, err) ==
    /\ ValuesWithin(h)
    /\ api' = Api(h, op, key, value, err, api.headers)
    /\ UNCHANGED <<driver_vars, restart, sizes, conn, server, emit>>

\* headers.insert(key, value)
InsertCall ==
    \E key \in ApiKeys, value \in ApiValues :
        MapCall(insert(api.headers, key, value), "insert", key, value, NoError)

\* headers.append(key, value)
AppendCall ==
    \E key \in ApiKeys, value \in ApiValues :
        MapCall(append(api.headers, key, value), "append", key, value, NoError)

\* headers.parse_header(block)
ParseHeaderWith(block, r) ==
    MapCall(r.headers, "parse_header", <<>>, block, r.err)

ParseHeaderCall ==
    \E block \in ApiBlocks : ParseHeaderWith(block, parse_header(api.headers, block))

NextMap ==
    \/ InsertCall
    \/ AppendCall
    \/ ParseHeaderCall

SpecMap == InitMap /\ [][NextMap]_vars

(***************************************************************************)
(* request_from_reader and Request::parse (request.rs) over octet counts,  *)
(* for requests as long as the two caps.  The request is a request line of *)
(* shape.line octets, shape.fields field lines of shape.field octets each  *)
(* (CRLF included), the blank line, and shape.body octets of body that     *)
(* hold no CR or LF; one of the field lines is a Content-Length of         *)
(* shape.declared.  The buffer is the buffered octets of the request that  *)
(* start at offset consumed.                                               *)
(***************************************************************************)
MaxFreeReads == 2

\* The octets of the header block: the field lines and the blank line.
BlockLen(shape) == shape.fields * shape.field + CRLF_LEN

RequestLen(shape) == shape.line + BlockLen(shape) + shape.body

Shape(line, field, fields, declared, b) ==
    [line |-> line, field |-> field, fields |-> fields, declared |-> declared,
     body |-> b]

\* Header blocks of about 32 KiB and small requests, read from their first
\* octet.
ShapesFromStart ==
    { Shape(16, 43, 763, 0, 0), Shape(16, 43, 761, 64, 64), Shape(16, 43, 1, 0, 0),
      Shape(16, 43, 1, 1, 2), Shape(16, 43, 1, 2, 1) }

\* Requests of about 8 MiB ("POST / HTTP/1.1", one Content-Length line).
ShapesOfBody == { Shape(17, 25, 1, 8388564, 8388564), Shape(17, 25, 1, 8388608, 8388608) }

\* Sizes the peer chooses for its first MaxFreeReads reads; later reads fill
\* the 64 octets of temp, or bring what is left.
FreeSizes == { 1, 16, TEMP_LEN }

Sizes(shape, unread, consumed, buffered, state, body_len, total, header, free, res) ==
    [shape |-> shape, unread |-> unread, consumed |-> consumed, buffered |-> buffered,
     state |-> state, body_len |-> body_len, total |-> total, header |-> header,
     free |-> free, result |-> res]

\* The locals of request_from_reader before the first read.
AtStart(shape) ==
    Sizes(shape, RequestLen(shape), 0, 0, Initialized, 0, 0, 0, MaxFreeReads, Running)

\* The locals after reads full reads of a request whose request line and
\* header block came whole in the first read (which is read in state
\* Initialized and so not counted as header): the parser is in ParseBody, the
\* buffer is drained, and the body holds all that was read after the block.
AfterFullReads(shape, reads) ==
    Sizes(shape, RequestLen(shape) - TEMP_LEN * reads, TEMP_LEN * reads, 0, ParseBody,
          TEMP_LEN * reads - shape.line - BlockLen(shape), TEMP_LEN * reads, 0,
          MaxFreeReads, Running)

InitSizes ==
    /\ \/ \E shape \in ShapesFromStart : sizes = AtStart(shape)
       \/ \E shape \in ShapesOfBody : sizes = AfterFullReads(shape, 131070)
    /\ api = Unused
    /\ conn = Unused
    /\ server = Unused
    /\ emit = Unused
    /\ DriverAtRest

\* Result<usize, HttpError> and the Request as the parse call leaves it.
SizeResult(e, n, st, b) == [err |-> e, consumed |-> n, state |-> st, body_len |-> b]

\* Initialized: the request line is taken once its CRLF is buffered.
parse_sizes_initialized(z) ==
    IF z.buffered >= z.shape.line
    THEN SizeResult(NoError, z.shape.line, ParseHeaders, z.body_len)
    ELSE SizeResult(NoError, 0, Initialized, z.body_len)

\* ParseHeaders: parse_header takes the field lines that are whole in the
\* buffer, and the blank line with them once it is whole; block octets are
\* the octets of the header block in the buffer, at the offset of the buffer's
\* start in the block.
parse_sizes_block(z, at, avail) ==
    IF at + avail = BlockLen(z.shape)
    THEN SizeResult(NoError, avail, ParseBody, z.body_len)
    ELSE SizeResult(NoError, (avail \div z.shape.field) * z.shape.field, ParseHeaders,
                    z.body_len)

parse_sizes_headers(z) ==
    parse_sizes_block(z, z.consumed - z.shape.line,
                      Min(z.buffered, z.shape.line + BlockLen(z.shape) - z.consumed))

\* ParseBody with a content-length of shape.declared.
parse_sizes_body(z, to_take) ==
    IF to_take < z.buffered
    THEN SizeResult(InvalidBodyLength, 0, ParseBody, z.body_len)
    ELSE IF z.body_len + to_take < z.shape.declared
    THEN SizeResult(NoError, to_take, ParseBody, z.body_len + to_take)
    ELSE SizeResult(NoError, to_take, Done, z.body_len + to_take)

parse_sizes(z) ==
    CASE z.state = Initialized  -> parse_sizes_initialized(z)
      [] z.state = ParseHeaders -> parse_sizes_headers(z)
      [] z.state = ParseBody    ->
             parse_sizes_body(z, Min(z.shape.declared - z.body_len, z.buffered))
      [] z.state = Done         -> SizeResult(NoError, 0, Done, z.body_len)

OnlySizes == UNCHANGED <<driver_vars, restart, api, conn, server, emit>>

\* ParseState::Done => return Ok(true)
SizeReturnDone ==
    /\ sizes.result = Running
    /\ sizes.state = Done
    /\ sizes' = [sizes EXCEPT !.result = Ok]
    /\ OnlySizes

\* request.parse(..)? fails
SizeParseFailsWith(r) ==
    /\ r.err # NoError
    /\ sizes' = [sizes EXCEPT !.result = r.err]
    /\ OnlySizes

SizeParseFails ==
    /\ sizes.result = Running
    /\ sizes.state # Done
    /\ SizeParseFailsWith(parse_sizes(sizes))

\* parsed > 0: buffer.drain(0..parsed); bytes_read -= parsed
SizeConsumeWith(r) ==
    /\ r.err = NoError
    /\ r.consumed > 0
    /\ sizes' = [sizes EXCEPT !.state = r.state, !.body_len = r.body_len,
                              !.consumed = @ + r.consumed,
                              !.buffered = @ - r.consumed]
    /\ OnlySizes

SizeConsume ==
    /\ sizes.result = Running
    /\ sizes.state # Done
    /\ SizeConsumeWith(parse_sizes(sizes))

\* parsed = 0 and the state became Done: return Ok(true)
SizeReturnParsedWith(r) ==
    /\ r.err = NoError
    /\ r.consumed = 0
    /\ r.state = Done
    /\ sizes' = [sizes EXCEPT !.state = Done, !.result = Ok]
    /\ OnlySizes

SizeReturnParsed ==
    /\ sizes.result = Running
    /\ sizes.state # Done
    /\ SizeReturnParsedWith(parse_sizes(sizes))

\* The sizes reader.read may return now.
ReadSizes(z) ==
    IF z.free > 0
    THEN { n \in FreeSizes : n <= z.unread }
    ELSE { Min(TEMP_LEN, z.unread) }

\* parsed = 0, not Done: reader.read(&mut temp) returns read > 0 octets
SizeReadWith(r) ==
    /\ r.err = NoError
    /\ r.consumed = 0
    /\ r.state # Done
    /\ sizes.unread > 0
    /\ \E read \in ReadSizes(sizes) :
         sizes' = [sizes EXCEPT
                     !.unread = @ - read,
                     !.buffered = @ + read,
                     !.total = @ + read,
                     !.header = IF r.state = ParseHeaders THEN @ + read ELSE @,
                     !.free = IF @ > 0 THEN @ - 1 ELSE 0,
                     !.result = size_checks(sizes.total + read,
                                            IF r.state = ParseHeaders
                                            THEN sizes.header + read ELSE sizes.header)]
    /\ OnlySizes

SizeRead ==
    /\ sizes.result = Running
    /\ sizes.state # Done
    /\ SizeReadWith(parse_sizes(sizes))

\* parsed = 0, not Done: reader.read returns 0 after the last octet
SizeReadEofWith(r) ==
    /\ r.err = NoError
    /\ r.consumed = 0
    /\ r.state # Done
    /\ sizes.unread = 0
    /\ sizes' = [sizes EXCEPT !.result = UnexpectedEOF]
    /\ OnlySizes

SizeReadEof ==
    /\ sizes.result = Running
    /\ sizes.state # Done
    /\ SizeReadEofWith(parse_sizes(sizes))

NextSizes ==
    \/ SizeReturnDone
    \/ SizeParseFails
    \/ SizeConsume
    \/ SizeReturnParsed
    \/ SizeRead
    \/ SizeReadEof

SpecSizes == InitSizes /\ [][NextSizes]_vars

(***************************************************************************)
(* What the peer sends, read off the parts it was put together from        *)
(* (RFC 9112 request-line, RFC 9110 field-line), not through the parser.   *)
(***************************************************************************)
NineMethods ==
    { Bytes("GET"), Bytes("POST"), Bytes("PATCH"), Bytes("PUT"), Bytes("DELETE"),
      Bytes("HEAD"), Bytes("OPTIONS"), Bytes("CONNECT"), Bytes("TRACE") }

LineMethod(line) == Take(line, Find(line, <<SP>>) - 1)
LineTarget(line) == SubSeq(line, Find(line, <<SP>>) + 1, RFind(line, <<SP>>) - 1)
LineProtocol(line) == Drop(line, RFind(line, <<SP>>))
LineVersion(line) == Drop(LineProtocol(line), Len(HttpPrefix))

\* method SP request-target SP "HTTP/" version: two single spaces, no tab,
\* no part missing.
WellFormedLine(line) ==
    /\ Cardinality({ i \in 1..Len(line) : line[i] = SP }) = 2
    /\ \A i \in 1..Len(line) : line[i] # HTAB
    /\ LineMethod(line) # <<>>
    /\ LineTarget(line) # <<>>
    /\ StartsWith(LineProtocol(line), HttpPrefix)

GoodLine(line) ==
    /\ WellFormedLine(line)
    /\ LineMethod(line) \in NineMethods
    /\ LineVersion(line) = Bytes("1.1")

FieldName(f) == Take(f, Find(f, <<":">>) - 1)
FieldValue(f) == Trim(Drop(f, Find(f, <<":">>)))

\* field-name ":" OWS field-value OWS, the name a token, no CR or LF in the
\* line, and Host not empty.
GoodField(f) ==
    /\ Find(f, <<":">>) > 1
    /\ \A i \in 1..Len(FieldName(f)) :
           FieldName(f)[i] \in Upper \cup Lower \cup Digit \cup TokenPunct
    /\ \A i \in 1..Len(f) : f[i] \notin {CR, LF}
    /\ ~(ToLowercase(FieldName(f)) = Bytes("host") /\ FieldValue(f) = <<>>)

GoodFields(fields) == \A i \in 1..Len(fields) : GoodField(fields[i])

\* Repeated names combine their values with ", " in the order sent.
Combined(h, name, value) ==
    IF name \in DOMAIN h
    THEN [h EXCEPT ![name] = IF h[name] = <<>> THEN value
                             ELSE h[name] \o <<",", SP>> \o value]
    ELSE [k \in (DOMAIN h) \cup {name} |-> IF k = name THEN value ELSE h[k]]

\* The header map the field lines stand for: lowercase names, trimmed values
\* decoded as UTF-8 with replacement.
RECURSIVE FieldMap(_)
FieldMap(fields) ==
    IF fields = <<>> THEN NewHeaders
    ELSE Combined(FieldMap(Take(fields, Len(fields) - 1)),
                  ToLowercase(FieldName(fields[Len(fields)])),
                  from_utf8_lossy(FieldValue(fields[Len(fields)])))

IsDecimal(v) == v # <<>> /\ \A i \in 1..Len(v) : v[i] \in Digit

\* The peer declares a body length (one Content-Length, in digits).
DeclaresLengthIn(map) ==
    /\ ContentLengthName \in DOMAIN map
    /\ IsDecimal(map[ContentLengthName])

DeclaredIn(map) == DecimalValue(map[ContentLengthName])

DeclaresLength(p) == DeclaresLengthIn(FieldMap(p.fields))
Declared(p) == DeclaredIn(FieldMap(p.fields))

NoLengthField(p) == ContentLengthName \notin DOMAIN FieldMap(p.fields)

\* A valid request: good request line, good field lines, and a body of the
\* declared length, or no body when no length is declared.
ValidRequest(p) ==
    /\ GoodLine(p.line)
    /\ GoodFields(p.fields)
    /\ \/ NoLengthField(p) /\ p.body = <<>>
       \/ DeclaresLength(p) /\ Len(p.body) = Declared(p)

\* The peer closed the connection before it had sent all of its octets.
PeerClosedEarly == eof /\ stream # <<>>

Finished == result # Running

(***************************************************************************)
(* Claims                                                                  *)
(***************************************************************************)

\* C1: for every valid request, however its octets are split into reads,
\* request_from_reader returns the Request made of its method, target, version,
\* header map and body.
ChunkPartitionIndependence ==
    (Finished /\ ~PeerClosedEarly /\ ValidRequest(peer)) =>
        /\ result = Ok
        /\ request_line = RequestLine(LineMethod(peer.line), LineTarget(peer.line),
                                      LineVersion(peer.line))
        /\ headers = FieldMap(peer.fields)
        /\ body = peer.body

\* A request in which every octet above 0x7F is part of a valid UTF-8 sequence.
Decodable(p) == from_utf8_lossy(Wire(p)) = Wire(p)

\* C1 on the requests that are valid UTF-8: it holds there.
ChunkPartitionIndependenceDecodable ==
    (Finished /\ Decodable(peer)) => ChunkPartitionIndependence

\* C2: when the peer sends more body octets than Content-Length declares,
\* request_from_reader ends in InvalidBodyLength, however the octets are split
\* into reads.
SurplusBody(p) ==
    /\ GoodLine(p.line)
    /\ GoodFields(p.fields)
    /\ DeclaresLength(p)
    /\ Len(p.body) > Declared(p)

SurplusBodyRejected ==
    (Finished /\ ~PeerClosedEarly /\ SurplusBody(peer)) => result = InvalidBodyLength

\* C3: a zero-length read before Done ends request_from_reader in
\* UnexpectedEOF, never in a Request; a body shorter than declared, followed by
\* the end of input, ends in UnexpectedEOF.
ShortBody(p) ==
    /\ GoodLine(p.line)
    /\ GoodFields(p.fields)
    /\ DeclaresLength(p)
    /\ Len(p.body) < Declared(p)

EofBeforeDoneIsUnexpectedEof ==
    /\ eof => (result = UnexpectedEOF /\ parse_state # Done)
    /\ result = Ok => (~eof /\ parse_state = Done)
    /\ (Finished /\ ShortBody(peer)) => result = UnexpectedEOF

ShortBodyThenEof ==
    /\ eof
    /\ parse_state = ParseBody
    /\ stream = <<>>
    /\ body # <<>>
    /\ ShortBody(peer)

\* C4: the body of every returned Request is as long as its content-length
\* header says, and empty when the Request has no such header.
DigitsOf(v) == SelectSeq(v, LAMBDA c : c \in Digit)

BodyLengthMatchesContentLength ==
    result = Ok =>
        IF ContentLengthName \in DOMAIN headers
        THEN Len(body) = DecimalValue(DigitsOf(headers[ContentLengthName]))
        ELSE body = <<>>

ReturnedWithDeclaredBody ==
    /\ result = Ok
    /\ ContentLengthName \in DOMAIN headers
    /\ Len(body) = 2
    /\ peer.body = body

\* C5: when the header block carries no Content-Length, the parser goes from
\* ParseBody to Done consuming nothing and the Request is returned with an empty
\* body, whatever follows the blank line.
NoContentLengthReturnsEmptyBody ==
    [][ (result = Running /\ parse_state = ParseBody
                          /\ ContentLengthName \notin DOMAIN headers)
        => /\ parse_state' = Done
           /\ result' = Ok
           /\ body' = <<>>
           /\ buffer' = buffer
           /\ stream' = stream
           /\ headers' = headers ]_vars

ReturnedBeforeTrailingOctets ==
    /\ result = Ok
    /\ ContentLengthName \notin DOMAIN headers
    /\ body = <<>>
    /\ buffer # <<>>
    /\ peer.body # <<>>

\* C6, as claimed: octets after the blank line of a request without
\* Content-Length make request_from_reader fail with InvalidBodyLength.
TrailingOctetsRejected ==
    (Finished /\ ~PeerClosedEarly /\ peer.body # <<>> /\ Decodable(peer)
              /\ GoodLine(peer.line) /\ GoodFields(peer.fields) /\ NoLengthField(peer))
        => result = InvalidBodyLength

\* C6, amended: Request::parse in state Done rejects a non-empty slice with
\* InvalidBodyLength, but request_from_reader returns the Request as soon as the
\* state is Done; the octets after the blank line of a request without
\* Content-Length are then still unparsed in the buffer: parse would reject
\* them, and the Request is returned all the same, with an empty body.
DoneRejects(r, rest) ==
    IF rest = <<>>
    THEN r.err = NoError /\ r.consumed = 0
    ELSE r.err = InvalidBodyLength

DoneLeavesRestUnparsed ==
    (result = Ok /\ ContentLengthName \notin DOMAIN headers) =>
        /\ parse_state = Done
        /\ body = <<>>
        /\ DoneRejects(parse(Request, buffer), buffer)

ReturnedWithRestInBuffer ==
    /\ result = Ok
    /\ parse_state = Done
    /\ ContentLengthName \notin DOMAIN headers
    /\ stream = <<>>
    /\ Len(buffer) = Len(peer.body)
    /\ Len(buffer) > 0

\* C7: a request line with extra spaces, tab separators or a missing part is
\* rejected with MalformedRequestLine: the parser does not get past a line that
\* is not method SP request-target SP HTTP/version, and fails in no other way.
IllFormedLineIsMalformed ==
    ~WellFormedLine(peer.line) =>
        /\ parse_state = Initialized
        /\ result \in {Running, UnexpectedEOF, MalformedRequestLine}
        /\ result = UnexpectedEOF => ~Contains(buffer, CRLF)

\* C8: a returned Request has one of the nine methods and version 1.1; a
\* well-formed line with another method ends in InvalidMethod, one with another
\* version (and one of the nine methods) in UnsupportedVersion, the parse state
\* still Initialized.
MethodAndVersionChecked ==
    /\ result = Ok =>
           /\ request_line.method \in NineMethods
           /\ request_line.http_version = Bytes("1.1")
    /\ (WellFormedLine(peer.line) /\ LineMethod(peer.line) \notin NineMethods) =>
           /\ parse_state = Initialized
           /\ result \in {Running, UnexpectedEOF, InvalidMethod}
           /\ result = UnexpectedEOF => ~Contains(buffer, CRLF)
    /\ (WellFormedLine(peer.line) /\ LineMethod(peer.line) \in NineMethods
                                  /\ LineVersion(peer.line) # Bytes("1.1")) =>
           /\ parse_state = Initialized
           /\ result \in {Running, UnexpectedEOF, UnsupportedVersion}
           /\ result = UnexpectedEOF => ~Contains(buffer, CRLF)

OtherVersionRefused ==
    /\ result = UnsupportedVersion
    /\ parse_state = Initialized
    /\ LineMethod(peer.line) = Bytes("GET")
    /\ LineVersion(peer.line) = Bytes("1.2")

\* C10: a header line is stored only if it has a colon and a name of token
\* characters without space, and is refused with MalformedHeader otherwise; so
\* every stored name is a lowercase token and no stored value begins or ends
\* with whitespace.
LowercaseToken(name) ==
    /\ name # <<>>
    /\ \A i \in 1..Len(name) : name[i] \in Lower \cup Digit \cup TokenPunct

Trimmed(value) ==
    value = <<>> \/ (value[1] \notin WhiteSpace /\ value[Len(value)] \notin WhiteSpace)

StoredFieldsWellFormed ==
    \A name \in DOMAIN headers : LowercaseToken(name) /\ Trimmed(headers[name])

\* C9: parse_header consumes whole CRLF-terminated lines only, and calling it
\* on a prefix of a header block and then on the rest leaves the header map,
\* the total consumed count and the done flag of a single call on the block.
Restarted ==
    \/ restart.stage \in {"Second", "Panic"}
    \/ restart.stage = "First" /\ (restart.err # NoError \/ restart.done)

SameAsSingleCall(r) ==
    /\ restart.stage # "Panic"
    /\ restart.err = r.err
    /\ restart.headers = r.headers
    /\ restart.err = NoError =>
           /\ restart.consumed = r.consumed
           /\ restart.done = r.done

WholeLinesOnly ==
    /\ restart.consumed <= Len(restart.block)
    /\ restart.consumed > 0 =>
           SubSeq(restart.block, restart.consumed - 1, restart.consumed) = CRLF

RestartEqualsSingleCall ==
    /\ restart.stage \in {"First", "Second"} => WholeLinesOnly
    /\ Restarted => SameAsSingleCall(parse_header(NewHeaders, restart.block))

\* The same for the header blocks that are valid UTF-8.
DecodableBlock == from_utf8_lossy(restart.block) = restart.block

RestartEqualsSingleCallDecodable ==
    DecodableBlock => RestartEqualsSingleCall

\* C11: a Host field with an empty value is refused with InvalidHeaders in
\* whatever letter case the peer wrote the name, so the header map never holds
\* an empty host value and no such Request is returned.
EmptyHostRejected ==
    (result = Ok /\ HostName \in DOMAIN headers) => headers[HostName] # <<>>

\* C12: after any sequence of insert, append and parse_header calls every
\* name that iter yields is ASCII lowercase.
NamesLowercase ==
    \A pair \in iter(api.headers) : pair[1] = ToLowercase(pair[1])

\* C13: append on a name with a non-empty value joins the old and the new
\* value with ", " (so insert(k, v) then append(k, w) gives "v, w"); append on
\* a name the map does not hold, or holds with an empty value, gives the new
\* value alone; parse_header appends the value of a name it meets again, so
\* the values of a repeated field are joined with ", " in arrival order.
AppendedTo(before, key, value) ==
    IF key \in DOMAIN before /\ before[key] # <<>>
    THEN before[key] \o Bytes(", ") \o value
    ELSE value

\* The lines of a block that parse_header takes: those that end in CRLF, up
\* to the blank line.
RECURSIVE CompleteLines(_)
CompleteLines(block) ==
    IF ~Contains(block, CRLF) \/ Find(block, CRLF) = 1 THEN <<>>
    ELSE <<Take(block, Find(block, CRLF) - 1)>>
         \o CompleteLines(Drop(block, Find(block, CRLF) + 1))

\* The values a map holds after the field lines, met in this order.
RECURSIVE AfterLines(_, _)
AfterLines(before, lines) ==
    IF lines = <<>> THEN before
    ELSE AfterLines(
             [k \in (DOMAIN before) \cup {ToLowercase(FieldName(Head(lines)))} |->
                 IF k = ToLowercase(FieldName(Head(lines)))
                 THEN AppendedTo(before, k, FieldValue(Head(lines)))
                 ELSE before[k]],
             Tail(lines))

MultiValueCombination ==
    /\ api.op = "append" =>
           /\ get(api.headers, api.key) = <<AppendedTo(api.before, api.key, api.value)>>
           /\ \A k \in DOMAIN api.headers :
                  k # api.key => get(api.before, k) = <<api.headers[k]>>
    /\ (api.op = "parse_header" /\ api.err = NoError) =>
           api.headers = AfterLines(api.before, CompleteLines(api.value))

InsertThenAppend ==
    /\ api.op = "append"
    /\ api.before = insert(NewHeaders, Bytes("k"), Bytes("v"))
    /\ api.value = Bytes("w")
    /\ get(api.headers, Bytes("k")) = <<Bytes("v, w")>>

RepeatedFieldJoined ==
    /\ api.op = "parse_header"
    /\ api.value = Bytes("k: v\r\nk: w\r\n\r\n")
    /\ api.before = NewHeaders
    /\ get(api.headers, Bytes("k")) = <<Bytes("v, w")>>

\* C14: after a header block is parsed into a new map, duplicate_headers() is
\* true exactly when host, content-length, transfer-encoding or connection was
\* supplied in more than one header line.
SuppliedTwice(lines) ==
    \E name \in CRITICAL_HEADERS :
        Cardinality({ i \in 1..Len(lines) : ToLowercase(FieldName(lines[i])) = name }) > 1

DuplicatesDetected ==
    (api.op = "parse_header" /\ api.err = NoError /\ api.before = NewHeaders) =>
        (duplicate_headers(api.headers) <=> SuppliedTwice(CompleteLines(api.value)))

\* C15: request_from_reader returns no Request after having read more than
\* 8 MiB: the read that takes the octets read for the request past the cap
\* ends the call with ContentTooLarge.
TotalCapEnforced ==
    /\ sizes.result = Ok => sizes.total <= MAX_REQUEST_SIZE
    /\ sizes.total > MAX_REQUEST_SIZE => sizes.result = ContentTooLarge

TotalCapExceeded ==
    /\ sizes.result = ContentTooLarge
    /\ sizes.total > MAX_REQUEST_SIZE
    /\ sizes.header <= MAX_HEADER_SIZE
    /\ sizes.state = ParseBody

\* A request of exactly 8 MiB is returned.
TotalCapReached ==
    /\ sizes.result = Ok
    /\ sizes.total = MAX_REQUEST_SIZE

\* C16: a request whose header block is larger than 32 KiB ends in
\* ContentTooLarge however its octets are split into reads, and a request
\* whose request line and header block are within 32 KiB is not refused for
\* the size of its header.
HeaderCapEnforced ==
    sizes.result # Running =>
        /\ BlockLen(sizes.shape) > MAX_HEADER_SIZE => sizes.result = ContentTooLarge
        /\ (sizes.shape.line + BlockLen(sizes.shape) <= MAX_HEADER_SIZE
                /\ sizes.total <= MAX_REQUEST_SIZE)
               => sizes.result # ContentTooLarge

\* C16, first half alone: a header block larger than 32 KiB is refused.
LargeBlockRefused ==
    (sizes.result # Running /\ BlockLen(sizes.shape) > MAX_HEADER_SIZE)
        => sizes.result = ContentTooLarge

\* C16, second half alone: a block within 32 KiB is not refused for its size.
SmallBlockNotRefused ==
    (sizes.shape.line + BlockLen(sizes.shape) <= MAX_HEADER_SIZE
         /\ sizes.total <= MAX_REQUEST_SIZE)
        => sizes.result # ContentTooLarge


(***************************************************************************)
(* Deadlines (request.rs, server.rs).  Time is counted in whole seconds.   *)
(* request_from_reader starts a timer of READ_REQUEST_TIMEOUT around every *)
(* iteration of its loop; the only await of an iteration is the read, so   *)
(* the timer of the iteration that waits was started when the last octets  *)
(* arrived.  process_request puts a timer of KEEP_ALIVE_TIMEOUT around the *)
(* whole call of request_from_reader, and handle a timer of SERVER_TIMEOUT *)
(* around the whole call of process_request.                               *)
(***************************************************************************)
Timeout == "Timeout"
Elapsed == "Elapsed"
HandlerError == "HandlerError"
ServerElapsed == "ServerElapsed"

READ_REQUEST_TIMEOUT == 30
KEEP_ALIVE_TIMEOUT == 15
SERVER_TIMEOUT == 120

\* A request arrives in at most MaxPieces reads.
MaxPieces == 3
\* The peer sends at most MaxRequests requests on a connection.
MaxRequests == 2
\* A direct call of request_from_reader is followed for MaxElapsed seconds.
MaxElapsed == 40

\* The errors of Request::parse and of the caps.
ParseErrors ==
    {UnsupportedVersion, InvalidMethod, MalformedRequestLine, MalformedHeader,
     InvalidHeaders, InvalidBodyLength, ParseError, ContentTooLarge}

BadRequest == "BadRequest"
RequestTimeout == "RequestTimeout"
GatewayTimeout == "GatewayTimeout"
StatusOk == "Ok"

ConnectionName == Bytes("connection")
Close == Bytes("close")

\* The header maps of the requests read on a connection.
RequestHeaders ==
    {NewHeaders,
     insert(NewHeaders, ConnectionName, Close),
     insert(NewHeaders, ConnectionName, Bytes("keep-alive"))}

\* What handler.call returns: Some(Response) or None.
Responses ==
    {<<[status |-> StatusOk, headers |-> NewHeaders]>>,
     <<[status |-> StatusOk,
        headers |-> insert(NewHeaders, ConnectionName, Close)]>>,
     <<[status |-> StatusOk,
        headers |-> insert(NewHeaders, Bytes("Connection"), Close)]>>,
     <<>>}

(***************************************************************************)
(* One connection.  pc is where the task waits: "Reading" in the read of   *)
(* request_from_reader, "Handling" in handler.call, "Returned" after a     *)
(* direct call of request_from_reader returned, "Closed" after handle      *)
(* returned.  since_iter, since_call and since_read are the seconds since  *)
(* the three timers were started; got counts the reads of the call that    *)
(* returned octets; open is FALSE once the peer has closed; last is the    *)
(* outcome of the last call of request_from_reader or of the handler,      *)
(* seen the value of got when it ended; wrote is what process_request      *)
(* wrote in its last call and written all the controller wrote; request    *)
(* is the header map of the request that was read, response what the       *)
(* handler returned last, returned what process_request returned last.     *)
(***************************************************************************)
NotReturned == "NotReturned"
OkTrue == "Ok(true)"
OkFalse == "Ok(false)"
Err == "Err"

Calling(open, handled, last, seen, wrote, written, should_continue) ==
    [pc |-> "Reading", since_iter |-> 0, since_call |-> 0, since_read |-> 0,
     got |-> 0, open |-> open, handled |-> handled, keep_alive |-> FALSE,
     last |-> last, seen |-> seen, wrote |-> wrote, written |-> written,
     should_continue |-> should_continue, request |-> NewHeaders,
     response |-> <<>>, returned |-> NotReturned, streamed |-> FALSE]

NewConnection == Calling(TRUE, 0, Running, 0, <<>>, <<>>, TRUE)

OnlyConn ==
    UNCHANGED <<driver_vars, restart, api, sizes, server, emit>>

\* The read of request_from_reader is pending.
Waits(c) == c.pc = "Reading" /\ c.open

\* A read returned octets that do not complete the request: the following
\* iteration starts its timer anew.
Arrived(c) == [c EXCEPT !.got = @ + 1, !.since_read = 0]

\* request_from_reader returned r.
ReturnedFrom(c, r) == [c EXCEPT !.last = r, !.seen = c.got]

(***************************************************************************)
(* request_from_reader called directly, as its tests call it.              *)
(***************************************************************************)
InitRead ==
    /\ conn = NewConnection
    /\ server = Unused
    /\ emit = Unused
    /\ api = Unused
    /\ sizes = Unused
    /\ DriverAtRest

ReadTick ==
    /\ Waits(conn)
    /\ conn.since_read < READ_REQUEST_TIMEOUT
    /\ conn.since_call < MaxElapsed
    /\ conn' = [conn EXCEPT !.since_call = @ + 1, !.since_read = @ + 1]
    /\ OnlyConn

ReadArrives ==
    /\ Waits(conn)
    /\ conn.got + 1 < MaxPieces
    /\ conn' = Arrived(conn)
    /\ OnlyConn

ReadCompletes ==
    /\ Waits(conn)
    /\ conn' = [ReturnedFrom(Arrived(conn), Ok) EXCEPT !.pc = "Returned"]
    /\ OnlyConn

ReadRefused ==
    /\ Waits(conn)
    /\ \E e \in ParseErrors :
          conn' = [ReturnedFrom(Arrived(conn), e) EXCEPT !.pc = "Returned"]
    /\ OnlyConn

ReadCloses ==
    /\ Waits(conn)
    /\ conn' = [ReturnedFrom(conn, UnexpectedEOF) EXCEPT
                   !.pc = "Returned", !.open = FALSE]
    /\ OnlyConn

ReadTimesOut ==
    /\ Waits(conn)
    /\ conn.since_read >= READ_REQUEST_TIMEOUT
    /\ conn' = [ReturnedFrom(conn, Timeout) EXCEPT !.pc = "Returned"]
    /\ OnlyConn

NextRead ==
    \/ ReadTick
    \/ ReadArrives
    \/ ReadCompletes
    \/ ReadRefused
    \/ ReadCloses
    \/ ReadTimesOut

SpecRead == InitRead /\ [][NextRead]_vars

(***************************************************************************)
(* The controller (server.rs): handle and process_request.                 *)
(***************************************************************************)
InitConn ==
    /\ conn = NewConnection
    /\ server = Unused
    /\ emit = Unused
    /\ api = Unused
    /\ sizes = Unused
    /\ DriverAtRest

\* process_request returned Ok(should_continue) after writing the
\* responses of wrote: handle loops or returns.
Signalled(c, should_continue, wrote) ==
    IF should_continue
    THEN [Calling(c.open, c.handled, c.last, c.seen, wrote,
                  c.written \o wrote, TRUE)
             EXCEPT !.response = c.response, !.returned = OkTrue]
    ELSE [c EXCEPT !.pc = "Closed", !.wrote = wrote,
                   !.written = @ \o wrote, !.should_continue = FALSE,
                   !.returned = OkFalse]

\* process_request returned Err(e), or the timer of handle fired: handle
\* breaks out of its loop.
Broken(c, wrote) ==
    [c EXCEPT !.pc = "Closed", !.wrote = wrote, !.written = @ \o wrote,
              !.should_continue = FALSE,
              !.returned = IF c.last = ServerElapsed THEN Elapsed ELSE Err]

\* after_read with the errors of the parse handed to handle.
after_read_propagates(c, r) ==
    IF r = UnexpectedEOF THEN Signalled(c, TRUE, <<>>)
    ELSE IF r = Timeout THEN Signalled(c, FALSE, <<RequestTimeout>>)
    ELSE IF r = Elapsed THEN Signalled(c, FALSE, <<BadRequest>>)
    ELSE Broken(c, <<>>)

\* The arms of the match of process_request that return at once.
after_read(c, r) ==
    IF r = UnexpectedEOF THEN Signalled(c, TRUE, <<>>)
    ELSE IF r = Timeout THEN Signalled(c, FALSE, <<RequestTimeout>>)
    ELSE Signalled(c, FALSE, <<BadRequest>>)

\* What ends the wait of the read when a timer is due: the timer of
\* request_from_reader is polled before the timer of process_request.
due(c) ==
    IF c.since_read >= READ_REQUEST_TIMEOUT THEN Timeout ELSE Elapsed

Tick ==
    /\ \/ /\ Waits(conn)
          /\ conn.since_read < READ_REQUEST_TIMEOUT
          /\ conn.since_call < KEEP_ALIVE_TIMEOUT
          /\ conn.since_iter < SERVER_TIMEOUT
          /\ conn' = [conn EXCEPT !.since_iter = @ + 1, !.since_call = @ + 1,
                                  !.since_read = @ + 1]
       \/ /\ conn.pc = "Handling"
          /\ conn.since_iter < SERVER_TIMEOUT
          /\ conn' = [conn EXCEPT !.since_iter = @ + 1]
    /\ OnlyConn

Arrives ==
    /\ Waits(conn)
    /\ conn.handled < MaxRequests
    /\ conn.got + 1 < MaxPieces
    /\ conn' = Arrived(conn)
    /\ OnlyConn

\* RequestRead with the next request read while the handler runs.
RequestReadPipelined ==
    /\ conn.pc \in {"Reading", "Handling"}
    /\ conn.open
    /\ conn.handled < MaxRequests
    /\ \E h \in RequestHeaders :
          conn' = [ReturnedFrom(Arrived(conn), Ok) EXCEPT
                      !.pc = "Handling",
                      !.handled = @ + 1,
                      !.keep_alive = (get(h, ConnectionName) # <<Close>>),
                      !.request = h,
                      !.wrote = <<>>]
    /\ OnlyConn

RequestRead ==
    /\ Waits(conn)
    /\ conn.handled < MaxRequests
    /\ \E h \in RequestHeaders :
          conn' = [ReturnedFrom(Arrived(conn), Ok) EXCEPT
                      !.pc = "Handling",
                      !.handled = @ + 1,
                      !.keep_alive = (get(h, ConnectionName) # <<Close>>),
                      !.request = h,
                      !.wrote = <<>>]
    /\ OnlyConn

\* ReadFails with the handler called on the Request the failed read left.
ReadFailsHandled ==
    /\ Waits(conn)
    /\ conn.handled < MaxRequests
    /\ \E e \in ParseErrors :
          conn' = [ReturnedFrom(Arrived(conn), e) EXCEPT
                      !.pc = "Handling", !.handled = @ + 1, !.wrote = <<>>]
    /\ OnlyConn

ReadFails ==
    /\ Waits(conn)
    /\ conn.handled < MaxRequests
    /\ \E e \in ParseErrors :
          conn' = after_read(ReturnedFrom(Arrived(conn), e), e)
    /\ OnlyConn

PeerCloses ==
    /\ Waits(conn)
    /\ conn' = [conn EXCEPT !.open = FALSE]
    /\ OnlyConn

ReadReturnsEof ==
    /\ conn.pc = "Reading"
    /\ ~conn.open
    /\ conn' = after_read(ReturnedFrom(conn, UnexpectedEOF), UnexpectedEOF)
    /\ OnlyConn

TimerFires ==
    /\ Waits(conn)
    /\ \/ conn.since_read >= READ_REQUEST_TIMEOUT
       \/ conn.since_call >= KEEP_ALIVE_TIMEOUT
    /\ conn' = after_read(ReturnedFrom(conn, due(conn)), due(conn))
    /\ OnlyConn

\* handler.call returned Ok(response).
Answered(c, response) == [c EXCEPT !.response = response]

\* after_handler with the connection kept after a handler that returned
\* no Response.
after_handler_keeps(c, response) ==
    IF response = <<>> THEN Signalled(Answered(c, response), c.keep_alive, <<>>)
    ELSE IF get(response[1].headers, ConnectionName) = <<Close>>
         THEN Signalled(Answered(c, response), FALSE, <<response[1].status>>)
         ELSE Signalled(Answered(c, response), c.keep_alive,
                        <<response[1].status>>)

\* The rest of process_request after handler.call returned Ok(response).
after_handler(c, response) ==
    IF response = <<>> THEN Signalled(Answered(c, response), FALSE, <<>>)
    ELSE IF get(response[1].headers, ConnectionName) = <<Close>>
         THEN Signalled(Answered(c, response), FALSE, <<response[1].status>>)
         ELSE Signalled(Answered(c, response), c.keep_alive,
                        <<response[1].status>>)

HandlerReturns ==
    /\ conn.pc = "Handling"
    /\ \E response \in Responses : conn' = after_handler(conn, response)
    /\ OnlyConn

\* handler.call is given the socket and awaits while it writes octets of a
\* response of its own into it (status line, headers and chunks).
HandlerStreams ==
    /\ conn.pc = "Handling"
    /\ ~conn.streamed
    /\ conn' = [conn EXCEPT !.streamed = TRUE]
    /\ OnlyConn

HandlerFails ==
    /\ conn.pc = "Handling"
    /\ conn' = Broken([conn EXCEPT !.last = HandlerError], <<>>)
    /\ OnlyConn

\* ServerTimeout without the response.
ServerTimeoutSilent ==
    /\ conn.pc \in {"Reading", "Handling"}
    /\ conn.since_iter >= SERVER_TIMEOUT
    /\ conn' = Broken([conn EXCEPT !.last = ServerElapsed], <<>>)
    /\ OnlyConn

ServerTimeout ==
    /\ conn.pc \in {"Reading", "Handling"}
    /\ conn.since_iter >= SERVER_TIMEOUT
    /\ conn' = Broken([conn EXCEPT !.last = ServerElapsed], <<GatewayTimeout>>)
    /\ OnlyConn

NextConn ==
    \/ Tick
    \/ Arrives
    \/ RequestRead
    \/ ReadFails
    \/ PeerCloses
    \/ ReadReturnsEof
    \/ TimerFires
    \/ HandlerReturns
    \/ HandlerStreams
    \/ HandlerFails
    \/ ServerTimeout

SpecConn == InitConn /\ [][NextConn]_vars

\* C17: a call of request_from_reader does not go on for more than
\* READ_REQUEST_TIMEOUT seconds: it is neither still reading nor returning
\* a Request after that time, however the peer spaces its octets.
WholeReadBounded ==
    /\ conn.pc = "Reading" => conn.since_call <= READ_REQUEST_TIMEOUT
    /\ (conn.pc = "Returned" /\ conn.last = Ok)
          => conn.since_call <= READ_REQUEST_TIMEOUT

\* C17, what the code keeps: no single read waits for more than
\* READ_REQUEST_TIMEOUT seconds.
EachReadBounded ==
    conn.pc \in {"Reading", "Returned"}
       => conn.since_read <= READ_REQUEST_TIMEOUT

ReadTimedOut ==
    conn.pc = "Returned" /\ conn.last = Timeout

\* C18: when a deadline ends the read of a request of which octets have
\* arrived, the controller writes a 408 Request Timeout response and closes
\* the connection.
LateRequestGets408 ==
    (conn.last \in {Timeout, Elapsed} /\ conn.seen > 0)
       => (conn.pc = "Closed" /\ conn.wrote = <<RequestTimeout>>)

\* C18, what the code does: the timer of process_request is due before the
\* timer of request_from_reader, and no 408 is ever written.
NoRequestTimeoutWritten ==
    /\ conn.last # Timeout
    /\ \A i \in 1..Len(conn.written) : conn.written[i] # RequestTimeout

LateRequestGets400 ==
    /\ conn.pc = "Closed"
    /\ conn.last = Elapsed
    /\ conn.seen > 0
    /\ conn.wrote = <<BadRequest>>

\* C19: when the idle window of a kept-alive connection passes without an
\* octet of a new request, the controller closes the connection and writes
\* nothing.
IdleClosesSilently ==
    (conn.last = Elapsed /\ conn.seen = 0 /\ conn.handled > 0)
       => (conn.pc = "Closed" /\ conn.wrote = <<>>)

\* C20: when the peer closes before it sent an octet of a request,
\* process_request writes nothing and signals that the loop of handle is
\* to end, and handle returns.
EofEndsConnection ==
    (conn.last = UnexpectedEOF /\ conn.seen = 0)
       => (conn.pc = "Closed" /\ ~conn.should_continue /\ conn.wrote = <<>>)

\* C21: when the peer closes after octets of a request have been read and
\* before the request is complete, the controller writes a 400 Bad Request
\* response and closes the connection.
EofInRequestGets400 ==
    (conn.last = UnexpectedEOF /\ conn.seen > 0)
       => (conn.pc = "Closed" /\ conn.wrote = <<BadRequest>>)

\* A step in which request_from_reader returns a parse error to
\* process_request.
ParseErrorStep ==
    /\ conn.pc = "Reading"
    /\ conn'.last \in ParseErrors
    /\ conn' # conn

HandlerStep ==
    /\ conn.pc = "Handling"
    /\ conn'.pc # "Handling"
    /\ conn'.last = Ok

\* The header map h has a connection field of value close, in whatever
\* case its name was supplied.
SaysClose(h) ==
    \E k \in DOMAIN h : ToLowercase(k) = ConnectionName /\ h[k] = Close

\* C23: after the handler returned a Response, process_request is called
\* again on the connection exactly when neither the response nor the
\* request has a connection field of value close.
KeptOpenIff ==
    [][(HandlerStep /\ conn'.response # <<>>) =>
          (conn'.pc = "Reading" <=>
              (~SaysClose(conn'.response[1].headers)
                  /\ ~SaysClose(conn.request)))]_vars

\* C23, what the code keeps: the same with the fields that get finds under
\* the name connection in lowercase.
KeptOpenIffStoredLowercase ==
    [][(HandlerStep /\ conn'.response # <<>>) =>
          (conn'.pc = "Reading" <=>
              (get(conn'.response[1].headers, ConnectionName) # <<Close>>
                  /\ get(conn.request, ConnectionName) # <<Close>>))]_vars

\* C24: when the handler returns no Response, process_request writes no
\* status line, header or body of its own and returns Ok(false), whatever
\* the connection field of the request.
NoResponseCloses ==
    [][(HandlerStep /\ conn'.response = <<>>) =>
          /\ conn'.pc = "Closed"
          /\ conn'.wrote = <<>>
          /\ conn'.written = conn.written
          /\ conn'.returned = OkFalse]_vars

StreamedOnKeepAlive ==
    /\ conn.pc = "Closed"
    /\ conn.last = Ok
    /\ conn.response = <<>>
    /\ conn.keep_alive
    /\ conn.written = <<StatusOk>>

\* C25: no call of process_request goes on for more than SERVER_TIMEOUT
\* seconds; when the timer of handle fires, a 504 Gateway Timeout response
\* is written and handle leaves its loop, so that nothing more is read.
IterationBounded ==
    /\ conn.pc \in {"Reading", "Handling"}
          => conn.since_iter <= SERVER_TIMEOUT
    /\ conn.last = ServerElapsed
          => /\ conn.pc = "Closed"
             /\ conn.wrote = <<GatewayTimeout>>
             /\ conn.returned = Elapsed

SlowHandlerGets504 ==
    /\ conn.last = ServerElapsed
    /\ conn.since_iter = SERVER_TIMEOUT
    /\ conn.written = <<StatusOk, GatewayTimeout>>

\* C26: requests of a connection are handled one after the other: while
\* request n+1 is read, the n requests before it have been handled and
\* answered, and while the handler works on request n, the n-1 requests
\* before it have been answered and no other has been read.
OneRequestAtATime ==
    /\ conn.pc = "Reading" => Len(conn.written) = conn.handled
    /\ conn.pc = "Handling" => Len(conn.written) = conn.handled - 1

SecondRequestAfterFirstAnswer ==
    /\ conn.pc = "Handling"
    /\ conn.handled = 2
    /\ conn.written = <<StatusOk>>

(***************************************************************************)
(* The accept loop (server.rs): serve, ServerState::listen, Server::close. *)
(* pc is where listen is: "Check" before the load of closed at the top of  *)
(* the loop, "Accept" in listener.accept().await, "Sleep" in the sleep     *)
(* after an accept error, "Returned" after listen returned.  backlog       *)
(* counts the connections the peers have opened and accept has not yet     *)
(* returned.  tasks are the tasks spawned for accepted sockets, each the   *)
(* loop of handle reduced to its awaits: "Reading", "Handling", "Done",    *)
(* and "Failed" after an error of the handler.                             *)
(***************************************************************************)
\* Peers open at most MaxConnections connections.
MaxConnections == 2
\* accept fails at most MaxAcceptErrors times.
MaxAcceptErrors == 1

Task(pc, answered, after_close, late) ==
    [pc |-> pc, answered |-> answered, after_close |-> after_close,
     late |-> late]

\* serve: the listener is bound, closed is false, listen is spawned.
InitServer ==
    /\ server = [closed |-> FALSE, pc |-> "Check", backlog |-> 0,
                 attempts |-> 0, errors |-> 0, tasks |-> <<>>]
    /\ conn = Unused
    /\ emit = Unused
    /\ api = Unused
    /\ sizes = Unused
    /\ DriverAtRest

OnlyServer == UNCHANGED <<driver_vars, restart, api, sizes, conn, emit>>

\* A peer connects to the port.
Connect ==
    /\ server.attempts < MaxConnections
    /\ server' = [server EXCEPT !.backlog = @ + 1, !.attempts = @ + 1]
    /\ OnlyServer

\* Server::close.
close_aborts ==
    /\ ~server.closed
    /\ server' = [server EXCEPT
                     !.closed = TRUE,
                     !.tasks = [i \in DOMAIN @ |-> [@[i] EXCEPT !.pc = "Done"]]]
    /\ OnlyServer

close ==
    /\ ~server.closed
    /\ server' = [server EXCEPT !.closed = TRUE]
    /\ OnlyServer

\* The top of the loop of listen.
ListenCheck ==
    /\ server.pc = "Check"
    /\ server' = [server EXCEPT
                     !.pc = IF server.closed THEN "Returned" ELSE "Accept"]
    /\ OnlyServer

\* accept with the connection handled before the loop goes on.
AcceptOkAwaits ==
    /\ server.pc = "Accept"
    /\ server.backlog > 0
    /\ \A i \in DOMAIN server.tasks : server.tasks[i].pc = "Done"
    /\ server' = [server EXCEPT
                     !.pc = "Check",
                     !.backlog = @ - 1,
                     !.tasks = Append(@, Task("Reading", 0, server.closed,
                                              FALSE))]
    /\ OnlyServer

\* accept returned Ok((stream, _)): the task of the connection is spawned.
AcceptOk ==
    /\ server.pc = "Accept"
    /\ server.backlog > 0
    /\ server' = [server EXCEPT
                     !.pc = "Check",
                     !.backlog = @ - 1,
                     !.tasks = Append(@, Task("Reading", 0, server.closed,
                                              FALSE))]
    /\ OnlyServer

\* accept returned Err(error).
AcceptErr ==
    /\ server.pc = "Accept"
    /\ server.errors < MaxAcceptErrors
    /\ server' = [server EXCEPT
                     !.pc = IF server.closed THEN "Returned" ELSE "Sleep",
                     !.errors = @ + 1]
    /\ OnlyServer

\* The sleep of 50 ms is over.
Wake ==
    /\ server.pc = "Sleep"
    /\ server' = [server EXCEPT !.pc = "Check"]
    /\ OnlyServer

\* A task has read a request and calls the handler.
TaskReads(i) ==
    /\ server.tasks[i].pc = "Reading"
    /\ server' = [server EXCEPT !.tasks[i].pc = "Handling"]
    /\ OnlyServer

\* The handler of a task returned and the response was written.
TaskAnswers(i) ==
    /\ server.tasks[i].pc = "Handling"
    /\ server' = [server EXCEPT !.tasks[i].pc = "Done",
                                !.tasks[i].answered = @ + 1,
                                !.tasks[i].late = server.closed]
    /\ OnlyServer

\* The read of a task ended without a request.
TaskEnds(i) ==
    /\ server.tasks[i].pc = "Reading"
    /\ server' = [server EXCEPT !.tasks[i].pc = "Done"]
    /\ OnlyServer

\* TaskFails with the error taking the other tasks and listen with it.
TaskFailsAll(i) ==
    /\ server.tasks[i].pc = "Handling"
    /\ server' = [server EXCEPT
                     !.pc = "Returned",
                     !.tasks = [j \in DOMAIN @ |->
                                  [@[j] EXCEPT !.pc = IF j = i THEN "Failed"
                                                      ELSE "Done"]]]
    /\ OnlyServer

\* The handler of a task returned an error: process_request returns it,
\* handle leaves its loop and the task ends.
TaskFails(i) ==
    /\ server.tasks[i].pc = "Handling"
    /\ server' = [server EXCEPT !.tasks[i].pc = "Failed"]
    /\ OnlyServer

TaskStep ==
    \E i \in DOMAIN server.tasks :
       \/ TaskReads(i)
       \/ TaskAnswers(i)
       \/ TaskEnds(i)
       \/ TaskFails(i)

NextServer ==
    \/ Connect
    \/ close
    \/ ListenCheck
    \/ AcceptOk
    \/ AcceptErr
    \/ Wake
    \/ TaskStep

SpecServer == InitServer /\ [][NextServer]_vars

\* The steps of the program are taken when they can be; the peers and the
\* application (Connect, close) and the errors of accept are not bound to
\* happen.
SpecServerFair ==
    /\ SpecServer
    /\ WF_vars(ListenCheck)
    /\ WF_vars(AcceptOk)
    /\ WF_vars(Wake)
    /\ WF_vars(TaskStep)

\* C27: listen does not wait for the tasks it spawned: a connection that
\* is waiting is accepted, the loop goes on and every task that reads goes
\* on to its handler, whatever the other tasks are doing.
ConnectionsIndependent ==
    /\ (server.pc = "Accept" /\ server.backlog > 0) => ENABLED AcceptOk
    /\ server.pc = "Check" => ENABLED ListenCheck
    /\ \A i \in DOMAIN server.tasks :
          /\ server.tasks[i].pc = "Reading" => ENABLED TaskReads(i)
          /\ server.tasks[i].pc = "Handling" => ENABLED TaskAnswers(i)

AnsweredDuringHandler ==
    /\ Len(server.tasks) = 2
    /\ server.tasks[1].pc = "Handling"
    /\ server.tasks[2].answered = 1

\* C28: no connection is accepted, and no task spawned, after close has
\* set closed.
NoAcceptAfterClose ==
    \A i \in DOMAIN server.tasks : ~server.tasks[i].after_close

\* C28, what the code keeps: at most one connection is accepted after
\* close, by the accept that was waiting when close was called.
OneAcceptAfterClose ==
    Cardinality({i \in DOMAIN server.tasks : server.tasks[i].after_close}) <= 1

\* C29: close changes closed and nothing else, and a task spawned before
\* goes on with its request, its handler and its response after it.
CloseChangesOnlyFlag ==
    /\ [][(server'.closed /\ ~server.closed)
             => server' = [server EXCEPT !.closed = TRUE]]_vars
    /\ [](\A i \in DOMAIN server.tasks :
             /\ server.tasks[i].pc = "Reading" => ENABLED TaskReads(i)
             /\ server.tasks[i].pc = "Handling" => ENABLED TaskAnswers(i))

AnsweredAfterClose ==
    \E i \in DOMAIN server.tasks :
       /\ ~server.tasks[i].after_close
       /\ server.tasks[i].late
       /\ server.tasks[i].answered = 1

\* C30: once close has been called, listen returns; stated for the case
\* the sentence includes, in which no peer has connected and accept has
\* not failed (both remain possible and need not happen).
CloseEndsListen ==
    (server.closed /\ server.attempts = 0 /\ server.errors = 0)
       ~> server.pc = "Returned"

\* C30, what the code keeps: listen returns at the first load of closed
\* after close, at the top of the loop or after an accept error.
ReturnedOnlyClosed ==
    server.pc = "Returned" => server.closed

\* C31: an error of the handler ends the task of its connection and
\* nothing else: no response is counted for the request, the task takes no
\* further step, and listen and the other tasks are as they were and go on.
HandlerErrorIsLocal ==
    /\ [][\A i \in DOMAIN server.tasks :
             /\ (server.tasks[i].pc = "Handling"
                    /\ server'.tasks[i].pc = "Failed")
                   => server' = [server EXCEPT !.tasks[i].pc = "Failed"]
             /\ server.tasks[i].pc = "Failed"
                   => server'.tasks[i] = server.tasks[i]]_vars
    /\ []((\E i \in DOMAIN server.tasks : server.tasks[i].pc = "Failed")
             => /\ (server.pc = "Accept" /\ server.backlog > 0)
                      => ENABLED AcceptOk
                /\ \A j \in DOMAIN server.tasks :
                      server.tasks[j].pc = "Handling" => ENABLED TaskAnswers(j))

AnsweredAfterHandlerError ==
    /\ Len(server.tasks) = 2
    /\ server.tasks[1].pc = "Failed"
    /\ server.tasks[1].answered = 0
    /\ server.tasks[2].answered = 1

\* C31, in the controller: after an error of the handler process_request
\* has written nothing and returned the error, and handle has returned.
HandlerErrorSilent ==
    conn.last = HandlerError
       => /\ conn.pc = "Closed"
          /\ conn.wrote = <<>>
          /\ conn.returned = Err

(***************************************************************************)
(* The response emitter (response.rs): write_status_line, write_headers,   *)
(* write_chunked_body, write_final_body_chunk, write_trailers and          *)
(* html_response, writing to a sink that takes every octet.                *)
(***************************************************************************)
\* A chunked body is written in at most MaxChunks calls.
MaxChunks == 3

\* StatusCode as u16.  RequestTimeout and GatewayTimeout are the codes of
\* the responses that server.rs builds.
status_code(status) ==
    CASE status = "Ok" -> 200
      [] status = "Created" -> 201
      [] status = "BadRequest" -> 400
      [] status = "NotFound" -> 404
      [] status = "RequestTimeout" -> 408
      [] status = "InternalServerError" -> 500
      [] status = "GatewayTimeout" -> 504

\* StatusCode::reason_phrase
reason_phrase(status) ==
    CASE status = "Ok" -> Bytes("OK")
      [] status = "Created" -> Bytes("Created")
      [] status = "BadRequest" -> Bytes("Bad Request")
      [] status = "NotFound" -> Bytes("Not Found")
      [] status = "RequestTimeout" -> Bytes("Request Timeout")
      [] status = "InternalServerError" -> Bytes("Internal Server Error")
      [] status = "GatewayTimeout" -> Bytes("Gateway Timeout")

StatusCodes ==
    {"Ok", "Created", "BadRequest", "NotFound", "RequestTimeout",
     "InternalServerError", "GatewayTimeout"}

HexDigits == Bytes("0123456789ABCDEF")

\* format!("{}", n) of an unsigned integer
RECURSIVE to_string(_)
to_string(n) ==
    IF n < 10 THEN <<Digits[n + 1]>>
    ELSE to_string(n \div 10) \o <<Digits[(n % 10) + 1]>>

\* format!("{:X}", n)
RECURSIVE to_upper_hex(_)
to_upper_hex(n) ==
    IF n < 16 THEN <<HexDigits[n + 1]>>
    ELSE to_upper_hex(n \div 16) \o <<HexDigits[(n % 16) + 1]>>

\* The orders in which the iterator of a HashMap may yield the keys of h.
RECURSIVE Orders(_)
Orders(keys) ==
    IF keys = {} THEN {<<>>}
    ELSE UNION {{<<k>> \o rest : rest \in Orders(keys \ {k})} : k \in keys}

\* write_status_line
write_status_line(writer, status) ==
    writer \o Bytes("HTTP/1.1 ") \o to_string(status_code(status)) \o <<SP>>
           \o reason_phrase(status) \o CRLF

\* write_headers, the iterator yielding the keys in the given order
write_headers(writer, h, order) ==
    writer
      \o Concat([i \in 1..Len(order) |->
                   order[i] \o Bytes(": ") \o h[order[i]] \o CRLF])
      \o CRLF

\* write_chunked_body
write_chunked_body(writer, data) ==
    writer \o to_upper_hex(Len(data)) \o CRLF \o data \o CRLF

\* write_trailers as write_headers writes them, name and value as stored.
write_trailers_as_stored(writer, h, order) ==
    write_headers(writer, h, order)

\* write_trailers
write_trailers(writer, h, order) ==
    writer
      \o Concat([i \in 1..Len(order) |->
                   ToLowercase(order[i]) \o Bytes(": ")
                      \o ToLowercase(h[order[i]]) \o CRLF])
      \o CRLF

\* write_final_body_chunk; trailers is <<>> for None and <<h>> for Some(h).
write_final_body_chunk(writer, trailers, order) ==
    IF trailers = <<>>
    THEN writer \o Bytes("0") \o CRLF \o CRLF
    ELSE write_trailers(writer \o Bytes("0") \o CRLF, trailers[1], order)

\* html_response with the content-length left out.
html_response_without_length(status, html) ==
    [status |-> status,
     headers |-> insert(NewHeaders, Bytes("content-type"), Bytes("text/html")),
     body |-> html]

\* html_response
html_response(status, html) ==
    [status |-> status,
     headers |-> insert(insert(NewHeaders, Bytes("content-type"),
                               Bytes("text/html")),
                        Bytes("content-length"), to_string(Len(html))),
     body |-> html]

\* write_response of server.rs: status line, headers, body.
write_response(writer, response, order) ==
    write_headers(write_status_line(writer, response.status),
                  response.headers, order) \o response.body

\* The data of the chunks.
ChunkData ==
    {<<>>, Bytes("a"), Bytes("0123456789"), Bytes("Let us see what happens")}

\* The trailers of the final chunk: None, or Some of a map.
TrailerOptions ==
    {<<>>,
     <<NewHeaders>>,
     <<insert(NewHeaders, Bytes("Server-Timing"), Bytes("custom-metric;dur=1"))>>,
     <<insert(insert(NewHeaders, Bytes("X-Content-SHA256"), Bytes("AB12")),
              Bytes("x-content-length"), Bytes("11"))>>}

\* The texts of the responses.
HtmlTexts ==
    {<<>>,
     Bytes("<h1>Hi</h1>"),
     Bytes("a\r\n\r\nb"),
     <<"c", "a", "f", "xC3", "xA9">>,
     Bytes("<html><body><h1>Bad Request</h1></body></html>")}

Emitting(sink, op, chunks, trailers, response, done) ==
    [sink |-> sink, op |-> op, chunks |-> chunks, trailers |-> trailers,
     response |-> response, done |-> done]

InitEmit ==
    /\ emit = Emitting(<<>>, "new", <<>>, <<>>, <<>>, FALSE)
    /\ api = Unused
    /\ sizes = Unused
    /\ conn = Unused
    /\ server = Unused
    /\ DriverAtRest

OnlyEmit == UNCHANGED <<driver_vars, restart, api, sizes, conn, server>>

WriteChunkedBody ==
    /\ ~emit.done
    /\ Len(emit.chunks) < MaxChunks
    /\ \E data \in ChunkData :
          emit' = [emit EXCEPT !.sink = write_chunked_body(@, data),
                               !.op = "write_chunked_body",
                               !.chunks = Append(@, data)]
    /\ OnlyEmit

WriteFinalBodyChunk ==
    /\ ~emit.done
    /\ \E trailers \in TrailerOptions :
          \E order \in Orders(IF trailers = <<>> THEN {}
                              ELSE DOMAIN trailers[1]) :
             emit' = [emit EXCEPT
                         !.sink = write_final_body_chunk(@, trailers, order),
                         !.op = "write_final_body_chunk",
                         !.trailers = trailers,
                         !.done = TRUE]
    /\ OnlyEmit

WriteResponse ==
    /\ ~emit.done
    /\ emit.sink = <<>>
    /\ \E status \in StatusCodes, html \in HtmlTexts :
          \E order \in Orders(DOMAIN html_response(status, html).headers) :
             emit' = [emit EXCEPT
                         !.sink = write_response(@, html_response(status, html),
                                                 order),
                         !.op = "write_response",
                         !.response = <<[status |-> status, html |-> html]>>,
                         !.done = TRUE]
    /\ OnlyEmit

NextEmit ==
    \/ WriteChunkedBody
    \/ WriteFinalBodyChunk
    \/ WriteResponse

SpecEmit == InitEmit /\ [][NextEmit]_vars

\* The value of a line of uppercase hexadecimal digits, -1 when the line is
\* empty or has another octet.
RECURSIVE HexValue(_)
HexValue(s) ==
    IF s = <<>> \/ \E i \in 1..Len(s) : \A d \in 1..16 : HexDigits[d] # s[i]
    THEN -1
    ELSE IF Len(s) = 1 THEN (CHOOSE d \in 1..16 : HexDigits[d] = s[1]) - 1
    ELSE 16 * HexValue(Take(s, Len(s) - 1))
         + ((CHOOSE d \in 1..16 : HexDigits[d] = s[Len(s)]) - 1)

Undecoded == [ok |-> FALSE, content |-> <<>>, rest |-> <<>>]

\* The end of the trailer section that follows the last chunk: the index of
\* the last octet of its empty line, 0 when there is none.
TrailerEnd(s) ==
    IF StartsWith(s, CRLF) THEN 2
    ELSE IF Find(s, CRLFCRLF) = 0 THEN 0
    ELSE Find(s, CRLFCRLF) + 3

\* A receiver of a chunked body (RFC 9112, 7.1): chunks of size, CRLF, data,
\* CRLF up to the chunk of size 0, then the trailer section.  content is the
\* decoded body, rest the octets after the end of the message.
RECURSIVE DecodeChunked(_)
DecodeChunked(s) ==
    LET i == Find(s, CRLF)
        size == IF i = 0 THEN -1 ELSE HexValue(Take(s, i - 1))
        after == Drop(s, i + 1)
    IN  IF size < 0 THEN Undecoded
        ELSE IF size = 0
             THEN IF TrailerEnd(after) = 0 THEN Undecoded
                  ELSE [ok |-> TRUE, content |-> <<>>,
                        rest |-> Drop(after, TrailerEnd(after))]
        ELSE IF Len(after) < size + 2
                   \/ SubSeq(after, size + 1, size + 2) # CRLF
             THEN Undecoded
        ELSE LET r == DecodeChunked(Drop(after, size + 2))
             IN  [ok |-> r.ok,
                  content |-> SubSeq(after, 1, size) \o r.content,
                  rest |-> r.rest]

\* C32: the calls of write_chunked_body followed by
\* write_final_body_chunk(None) emit a chunked body that a receiver decodes
\* to the data of the calls, joined in the order of the calls, and nothing
\* is left over.
ChunkedBodyDecodes ==
    (emit.op = "write_final_body_chunk" /\ emit.trailers = <<>>)
       => /\ DecodeChunked(emit.sink).ok
          /\ DecodeChunked(emit.sink).content = Concat(emit.chunks)
          /\ DecodeChunked(emit.sink).rest = <<>>

\* C32, first half: a call of write_chunked_body adds the length of the
\* data in uppercase hexadecimal, CRLF, the data, CRLF, and nothing else.
ChunkFramedExactly ==
    [][emit'.op = "write_chunked_body" /\ emit' # emit =>
          LET data == emit'.chunks[Len(emit'.chunks)]
              added == Drop(emit'.sink, Len(emit.sink))
              i == Find(added, CRLF)
          IN  /\ Take(emit'.sink, Len(emit.sink)) = emit.sink
              /\ i > 1
              /\ HexValue(Take(added, i - 1)) = Len(data)
              /\ Drop(added, i + 1) = data \o CRLF]_vars

\* C32, what the code keeps: the body decodes to the data of the calls when
\* no call was given empty data.
ChunkedBodyDecodesNonEmpty ==
    (emit.op = "write_final_body_chunk" /\ emit.trailers = <<>>
        /\ \A i \in 1..Len(emit.chunks) : emit.chunks[i] # <<>>)
       => /\ DecodeChunked(emit.sink).ok
          /\ DecodeChunked(emit.sink).content = Concat(emit.chunks)
          /\ DecodeChunked(emit.sink).rest = <<>>

\* The line of a trailer as the final chunk is to carry it.
TrailerLine(h, k) == ToLowercase(k) \o Bytes(": ") \o ToLowercase(h[k])

ReceivedFields(block) ==
    LET lines == Split(block, CRLF)
        name(l) == Take(l, Find(l, Bytes(": ")) - 1)
        value(l) == Drop(l, Find(l, Bytes(": ")) + 1)
    IN  [k \in {name(lines[i]) : i \in 1..Len(lines)} |->
            value(lines[CHOOSE i \in 1..Len(lines) : name(lines[i]) = k])]

ReceivedResponse(s) ==
    LET i == Find(s, CRLF)
        j == Find(s, CRLFCRLF)
        parts == Split(Take(s, i - 1), <<SP>>)
        fields == ReceivedFields(SubSeq(s, i + 2, j - 1))
        after == Drop(s, j + 3)
        length == IF Bytes("content-length") \in DOMAIN fields
                  THEN ParseUsize(fields[Bytes("content-length")])
                  ELSE [ok |-> FALSE, value |-> 0]
    IN  [version |-> parts[1],
         code |-> parts[2],
         fields |-> fields,
         framed |-> length.ok /\ length.value = Len(after),
         body |-> after]

\* C34: the octets written for html_response(c, h), status line, headers
\* and body, are read back as a response of HTTP/1.1 with the code of c,
\* content-type text/html, a content-length of the number of octets of h,
\* and the body h.
HtmlResponseRoundTrip ==
    emit.op = "write_response" =>
       LET received == ReceivedResponse(emit.sink)
           sent == emit.response[1]
       IN  /\ received.version = Bytes("HTTP/1.1")
           /\ ParseUsize(received.code).ok
           /\ ParseUsize(received.code).value = status_code(sent.status)
           /\ DOMAIN received.fields
                 = {Bytes("content-type"), Bytes("content-length")}
           /\ received.fields[Bytes("content-type")] = Bytes("text/html")
           /\ received.framed
           /\ received.body = sent.html

SynthesizedResponseWritten ==
    /\ emit.op = "write_response"
    /\ emit.response[1].status = "GatewayTimeout"
    /\ emit.response[1].html
          = Bytes("<html><body><h1>Bad Request</h1></body></html>")

\* The place of a parse state in Initialized, ParseHeaders, ParseBody, Done.
Rank(st) ==
    CASE st = Initialized -> 0
      [] st = ParseHeaders -> 1
      [] st = ParseBody -> 2
      [] st = Done -> 3

\* C35: a step of the driver leaves the parse state where it is or moves it
\* to the next state, and leaves it where it is when it ends in an error
\* returned by parse or by the driver;
\* request_line changes in the step from Initialized to ParseHeaders and
\* only there, headers change only in ParseHeaders and body only in
\* ParseBody.
StateMovesForward ==
    [][/\ Rank(parse_state') \in {Rank(parse_state), Rank(parse_state) + 1}
       /\ result' \notin {Running, Ok, Panic} => parse_state' = parse_state
       /\ request_line' # request_line
             <=> (parse_state = Initialized /\ parse_state' = ParseHeaders)
       /\ headers' # headers => parse_state = ParseHeaders
       /\ body' # body => parse_state = ParseBody]_vars

AllStatesPassed ==
    /\ result = Ok
    /\ parse_state = Done
    /\ request_line # EmptyRequestLine
    /\ headers # NewHeaders
    /\ body # <<>>


\* C36: whenever the driver is about to call parse on its buffer, the count
\* parse returns is at most the length of the buffer, so that the driver
\* never panics in buffer.drain(0..parsed); and bytes_read is the length of
\* the buffer.
ConsumedWithinSlice ==
    /\ bytes_read = Len(buffer)
    /\ result # Panic
    /\ (result = Running /\ parse_state # Done) => Parsed.consumed <= Len(buffer)


\* The octets the peer sent after the returned Request: those read into the
\* buffer of the call and not drained, then those still in the socket.
SentAfterRequest == buffer \o stream

\* The octets the next call of request_from_reader parses: its buffer is a
\* new Vec, so it sees only what is still in the socket.
SeenByNextCall == stream

\* C37: when request_from_reader returns a Request, every octet the peer sent
\* after that request is still to be seen by the next call on the connection:
\* the next request is parsed from its first octet.
NoOctetLostBetweenRequests ==
    result = Ok => SeenByNextCall = SentAfterRequest


\* C38: handle writes its 504 only when no octet of a response for the
\* request being processed has reached the socket: the handler has not
\* written into the socket during the iteration whose timer fired.
No504AfterResponseBytes ==
    (conn.pc = "Closed" /\ conn.last = ServerElapsed
        /\ conn.wrote = <<GatewayTimeout>>) => ~conn.streamed


\* What an iteration of the loop of request_from_reader may do: drain at
\* least one octet of the buffer, bring the parse to Done, read at least one
\* new octet, or return an error.
Drains == Len(buffer') < Len(buffer)
ReachesDone == parse_state' = Done
ReadsNew == total_bytes_read' > total_bytes_read
ReturnsError == result' \notin {Running, Ok, Panic}

\* C39: every iteration of the driver loop drains at least one buffered
\* octet, reaches Done, reads at least one new octet or returns an error.
EachIterationProgresses ==
    [][Drains \/ ReachesDone \/ ReadsNew \/ ReturnsError]_vars

\* The iterations that do none of these are those in which buffer.drain
\* panics; no iteration leaves buffer, state and result as they were.
IterationProgressesOrPanics ==
    [][Drains \/ ReachesDone \/ ReadsNew \/ ReturnsError \/ result' = Panic]_vars


\* request_from_reader returns Ok(request) only with the parse at Done.
ReturnedRequestIsDone == result = Ok => parse_state = Done

\* C40: the handler is running only after a read that returned a Request;
\* a step calls it at most once, and only as the step in which the read of
\* the connection returned Ok; the handler is not called in a step after
\* which the last read has ended in an error, in end of file or in a timeout.
HandlerCalledOncePerRequest ==
    [][/\ conn'.pc = "Handling" => conn'.last = Ok
       /\ conn'.handled \in {conn.handled, conn.handled + 1}
       /\ conn'.handled # conn.handled
             <=> (conn.pc = "Reading" /\ conn'.pc = "Handling")
       /\ conn'.last # Ok => conn'.handled = conn.handled]_vars

HandledThenReadFailed ==
    /\ conn.pc = "Closed"
    /\ conn.handled = 1
    /\ conn.last \in ParseErrors \cup {Timeout}
    /\ conn.returned = OkFalse

====
